---- MODULE Spec2Model ----
(***************************************************************************)
(* A model of the terminal relay: the relay server's session broker and    *)
(* WebSocket endpoint (relay-server), the agent's relay client, frame      *)
(* codec, router and tmux manager (mac-client).                            *)
(*                                                                         *)
(* The module holds several specifications over one set of variables:      *)
(*   Spec        the relay broker serving environment clients              *)
(*   SpecUp      agent, relay and browsers: browser input to PTY commands  *)
(*   SpecDown    agent, relay and browsers: PTY output to the browsers     *)
(*   SpecMint    the relay broker with two agents minting codes            *)
(*   SpecCodec   the binary frame codec as a pure function                 *)
(*   SpecBackoff the relay client's reconnect loop                         *)
(*   SpecTmux    the agent's tmux session manager                          *)
(* Every specification leaves the variables of the others unchanged.       *)
(***************************************************************************)
EXTENDS Integers, Sequences, FiniteSets, TLC

VARIABLES
    \* ---- relay-server: state.rs, handlers/ws.rs
    sessions,   \* AppStateInner.sessions: code -> [mac_tx, browsers]
    pc,         \* per socket: position of its handler task
    code,       \* per socket: the handler's local `code`
    chan,       \* per socket: contents of the handler's mpsc channel
    rx,         \* per socket: who holds the channel's receiver
    out,        \* per socket: frames the relay wrote to the socket
    bc_todo,    \* per agent socket: browsers the running broadcast has yet to visit
    bc_msg,     \* per agent socket: the message being broadcast
    tries,      \* per agent socket: colliding candidates seen by register_mac_client
    upgrades,   \* sockets upgraded so far
    nframes,    \* environment: frames the clients have sent after their first
    first,      \* history, per socket: the first frame handle_socket read
    joined,     \* history, per browser socket: the mac_tx of the entry add_browser put it in
    att,        \* history, per browser socket: the frames read and the broadcasts
                \* running when add_browser ran (kept by SpecFan only)
    \* ---- mac-client: relay/connection.rs, RelayClient::run
    rc_pc,              \* position of the run loop
    reconnect_attempts, \* RelayClient.reconnect_attempts
    rc_slept,           \* history: one record per sleep of the run loop
    rc_failed,          \* history: connect_async failures since it last succeeded
    rc_passes,          \* history: sleeps since connect_async last succeeded
    rc_registered,      \* history: registered{code} was handled on this connection
                        \* (kept by SpecBackoff only)
    \* ---- mac-client: relay/connection.rs, the frame codec
    cd_pc,              \* "idle", "sent" (a frame is on the wire), "received"
    cd_id,              \* the session id given to send_terminal_data
    cd_payload,         \* the data given to send_terminal_data
    cd_frame,           \* the binary frame on the wire
    cd_raw,             \* the frame was not built by send_terminal_data
    cd_events,          \* the RelayEvents handle_binary_message emitted
    \* ---- mac-client: tmux/mod.rs, TmuxManager
    tm_sessions,        \* the `sessions` map: session id -> session_name
    tm_reader,          \* per session id: "none", "running", "exited" (read_tmux_output)
    tm_events,          \* what was sent on event_tx, in order
    tm_pc,              \* process_commands: "idle", "killing", "stopped"
    tm_kill,            \* kill_session_by_id in progress: its session_id and name
    tm_uuids,           \* session ids minted so far
    tm_chunks,          \* chunks the PTYs have produced so far
    tm_lock,            \* the Mutex around `sessions`: "free" or the task holding its guard
    tmux_ls,            \* the names `tmux list-sessions` would print now
    known_sessions,     \* watch_for_new_sessions: the names of its previous poll
    wt_attach,          \* the name the watcher has checked and is attaching, or ""
    cp_attach,          \* the names process_commands has yet to attach, in order
    \* ---- mac-client: main.rs and relay/connection.rs, the agent's wiring
    ag_up,              \* frames the relay client wrote that the relay has not read
    ag_rd,              \* frames of the relay's socket output the client has read
    relay_events,       \* the relay_event channel (RelayClient -> forward_relay_events)
    relay_cmds,         \* the relay_cmd channel (-> RelayClient's select loop)
    pty_cmds,           \* what forward_relay_events sent on pty_cmd_tx, in order
    pe_rd,              \* events of the PTY manager the pty_event task has taken
    session_list,       \* the shared session_list: the ids of the attached sessions
    pe_hold,            \* the pty_event task: the command it is about to send, if any
    fr_hold,            \* forward_relay_events: the list it cloned and has yet to send
    \* ---- mac-client: main.rs, run_cloudflared_tunnel
    tn_pc,              \* "idle", "reading" (the stderr loop), "done"
    tn_lines,           \* lines of cloudflared's stderr read so far
    tn_events,          \* what was sent on ui_tx, in order
    \* ---- protocol.rs of both programs: one control message on its way
    sc_pc,              \* "idle", "sent" (the text is on the wire), "received"
    sc_from,            \* the program that serialized it: "agent" or "relay"
    sc_msg,             \* the ControlMessage value given to to_string
    sc_json,            \* the JSON text on the wire
    sc_result,          \* what from_str returned on the other side
    \* ---- mac-client: main.rs, the UI thread
    ui_events,          \* the ui channel (background tasks -> handle_ui_events)
    browser_count,      \* AppState.browser_count
    shell_count         \* AppState.shell_count

relayVars == <<sessions, pc, code, chan, rx, out, bc_todo, bc_msg, tries, upgrades,
              first, joined, att>>

\* The environment's count of the frames it has sent.
envVars == <<nframes>>

backoffVars == <<rc_pc, reconnect_attempts, rc_slept, rc_failed, rc_passes, rc_registered>>

codecVars == <<cd_pc, cd_id, cd_payload, cd_frame, cd_raw, cd_events>>

tmuxVars == <<tm_sessions, tm_reader, tm_events, tm_pc, tm_kill, tm_uuids, tm_chunks,
             tm_lock, tmux_ls, known_sessions, wt_attach, cp_attach>>

pipeVars == <<ag_up, ag_rd, relay_events, relay_cmds, pty_cmds, pe_rd, session_list, pe_hold, fr_hold>>

tunnelVars == <<tn_pc, tn_lines, tn_events>>

schemaVars == <<sc_pc, sc_from, sc_msg, sc_json, sc_result>>

uiVars == <<ui_events, browser_count, shell_count>>

\* Every variable outside the relay broker and its environment.
agentVars == <<backoffVars, codecVars, tmuxVars, pipeVars, tunnelVars, schemaVars, uiVars>>

\* An action names the variables of its own component only; a specification
\* adds, step by step, the components it leaves alone.
notBackoff == <<relayVars, envVars, codecVars, tmuxVars, pipeVars, tunnelVars, schemaVars, uiVars>>
notCodec == <<relayVars, envVars, backoffVars, tmuxVars, pipeVars, tunnelVars, schemaVars, uiVars>>
notSchema == <<relayVars, envVars, backoffVars, codecVars, tmuxVars, pipeVars, tunnelVars, uiVars>>
notTmux == <<relayVars, envVars, backoffVars, codecVars, pipeVars, tunnelVars, schemaVars, uiVars>>
notTunnel == <<relayVars, envVars, backoffVars, codecVars, tmuxVars, pipeVars, schemaVars, uiVars>>

\* The same lists for the steps that also write to the ui channel.
notUi == <<relayVars, envVars, backoffVars, codecVars, tmuxVars, pipeVars, tunnelVars,
          schemaVars>>
notAgentPipeUi == <<relayVars, envVars, backoffVars, codecVars, tmuxVars, tunnelVars,
                   schemaVars>>

vars == <<relayVars, envVars, agentVars>>

----------------------------------------------------------------------------
(* Bounds of the model.                                                    *)

MaxUpgrades == 3
MaxFrames == 2
MaxTries == 1
NumCodes == 2
\* The channels of the code hold 1000 messages (ws.rs:89, ws.rs:195); the
\* model keeps the blocking behaviour of a full channel with a small one.
ChanCap == 1
\* The sleeps of the reconnect loop the model follows.
MaxSleeps == 8
\* Session ids of 0..MaxShortId characters, besides the longest a frame holds.
MaxShortId == 2
\* The largest length the `as u8` of send_terminal_data keeps.
U8_MAX == 255
\* The sessions the tmux manager attaches to and the chunks their PTYs yield.
MaxAttach == 2
MaxChunks == 2

\* The sockets clients open: on 1 and 2 the client is an agent, on 3 and 4 a
\* browser. Spec serves one agent and two browsers, SpecMint two agents and
\* one browser.
AgentSocks == {1, 2}
BrowserSocks == {3, 4}
Socks == AgentSocks \cup BrowserSocks
SpecSocks == {1, 3, 4}
MintSocks == {1, 2, 3}

----------------------------------------------------------------------------
(* session.rs: the code mint.                                              *)

\* The digits and capital letters, none left out.
ALPHANUMERIC ==
    << "0", "1", "2", "3", "4", "5", "6", "7", "8", "9",
       "A", "B", "C", "D", "E", "F", "G", "H", "I", "J", "K", "L", "M",
       "N", "O", "P", "Q", "R", "S", "T", "U", "V", "W", "X", "Y", "Z" >>

CODE_ALPHABET ==
    << "A", "B", "C", "D", "E", "F", "G", "H", "J", "K",
       "M", "N", "P", "Q", "R", "S", "T", "U", "V", "W",
       "X", "Y", "Z", "2", "3", "4", "5", "6", "7", "8", "9" >>

CODE_LEN == 6

AlphabetSet == { CODE_ALPHABET[i] : i \in 1..Len(CODE_ALPHABET) }

\* generate_session_code: any string of CODE_LEN characters of the alphabet.
IsGeneratedCode(c) ==
    /\ Len(c) = CODE_LEN
    /\ \A i \in 1..Len(c) : c[i] \in AlphabetSet

\* The candidates nanoid draws in the model: NumCodes of the 31^6 codes.
Candidate(k) == [i \in 1..CODE_LEN |-> IF i = CODE_LEN THEN "2" ELSE CODE_ALPHABET[k]]
Candidates == { Candidate(k) : k \in 1..NumCodes }

NoCode == << >>

----------------------------------------------------------------------------
(* str::to_uppercase on the ASCII letters.                                 *)

UPPER == << "A", "B", "C", "D", "E", "F", "G", "H", "I", "J", "K", "L", "M",
            "N", "O", "P", "Q", "R", "S", "T", "U", "V", "W", "X", "Y", "Z" >>
LOWER == << "a", "b", "c", "d", "e", "f", "g", "h", "i", "j", "k", "l", "m",
            "n", "o", "p", "q", "r", "s", "t", "u", "v", "w", "x", "y", "z" >>

char_to_uppercase(ch) ==
    IF \E i \in 1..Len(LOWER) : LOWER[i] = ch
    THEN UPPER[CHOOSE i \in 1..Len(LOWER) : LOWER[i] = ch]
    ELSE ch

char_to_lowercase(ch) ==
    IF \E i \in 1..Len(UPPER) : UPPER[i] = ch
    THEN LOWER[CHOOSE i \in 1..Len(UPPER) : UPPER[i] = ch]
    ELSE ch

\* A comparison that keeps the case of what was typed.
to_uppercase_keep(s) == s

to_uppercase(s) == [i \in 1..Len(s) |-> char_to_uppercase(s[i])]

\* The spellings of a code a browser may type: letters in either case.
LowerFirst(c) == [i \in 1..Len(c) |-> IF i = 1 THEN char_to_lowercase(c[i]) ELSE c[i]]
LowerAll(c) == [i \in 1..Len(c) |-> char_to_lowercase(c[i])]
CaseVariants(c) == { c, LowerFirst(c), LowerAll(c) }

\* A code no session is ever registered under.
UnknownCode == << "z", "z", "z", "z", "z", "z" >>

\* What browsers type: each code as minted, with its first letter in lower
\* case and all in lower case, and the unknown code.
AuthInputs == (UNION { CaseVariants(c) : c \in Candidates }) \cup { UnknownCode }
\* The spellings the modelled browsers type: the first code as minted and in
\* mixed case, the other codes in lower case, and the unknown code.
TypedCodes ==
    { c \in AuthInputs :
        \/ c = UnknownCode
        \/ c \in CaseVariants(Candidate(1)) /\ c # LowerAll(Candidate(1))
        \/ \E k \in 2..NumCodes : c = LowerAll(Candidate(k)) }

----------------------------------------------------------------------------
(* protocol.rs: control messages; WebSocket frames and channel messages.   *)

\* A JSON text: its `type` tag and its fields (a tuple of strings).
Ctl(type, arg) == [type |-> type, arg |-> arg]
Malformed == Ctl("#malformed", << >>)
NoText == Ctl("#none", << >>)

\* The variants of ControlMessage (serde tag = "type", snake_case).
ControlTags ==
    { "register", "registered", "browser_connected", "browser_disconnected",
      "auth", "auth_success", "auth_failed", "close_session", "create_session",
      "session_list", "session_connected", "session_disconnected", "error" }

\* serde_json::from_str::<ControlMessage>: Ok exactly for a known tag.
from_str_ok(text) == text.type \in ControlTags

\* A frame or channel message. `tag` is history only: <<socket, n>> names the
\* n-th frame the client of that socket submitted; the relay's own frames
\* carry NoTag. No action reads it.
NoTag == << 0, 0 >>
TextFrame(t) == [k |-> "text", text |-> t, data |-> << >>, tag |-> NoTag]
BinaryFrame(d) == [k |-> "binary", text |-> NoText, data |-> d, tag |-> NoTag]
CloseFrame == [k |-> "close", text |-> NoText, data |-> << >>, tag |-> NoTag]
Tagged(f, t) == [f EXCEPT !.tag = t]
NoFrame == [k |-> "none", text |-> NoText, data |-> << >>, tag |-> NoTag]

ErrorFrame(m) == TextFrame(Ctl("error", << m >>))
DisconnectError == Ctl("error", << "Session disconnected" >>)

\* str::as_bytes on the characters the model uses.
DIGITS == << "0", "1", "2", "3", "4", "5", "6", "7", "8", "9" >>

byte_of(ch) ==
    IF \E i \in 1..Len(LOWER) : LOWER[i] = ch
    THEN 96 + (CHOOSE i \in 1..Len(LOWER) : LOWER[i] = ch)
    ELSE IF \E i \in 1..Len(UPPER) : UPPER[i] = ch
    THEN 64 + (CHOOSE i \in 1..Len(UPPER) : UPPER[i] = ch)
    ELSE IF \E i \in 1..Len(DIGITS) : DIGITS[i] = ch
    THEN 47 + (CHOOSE i \in 1..Len(DIGITS) : DIGITS[i] = ch)
    ELSE 45

as_bytes(str) == [i \in 1..Len(str) |-> byte_of(str[i])]

\* b"{\"type\":\"close_session\"}"
CLOSE_SESSION_PAYLOAD ==
    << 123, 34, 116, 121, 112, 101, 34, 58, 34, 99, 108, 111, 115, 101, 95,
       115, 101, 115, 115, 105, 111, 110, 34, 125 >>

\* `n as u8`
as_u8(n) == n % 256

\* handle_browser, CloseSession: [session_id.len() as u8][session_id][payload]
close_session_frame(session_id) ==
    << as_u8(Len(session_id)) >> \o as_bytes(session_id) \o CLOSE_SESSION_PAYLOAD

BrowserId(s) == << ToString(s) >>

----------------------------------------------------------------------------
(* state.rs: the sessions map and the channels.                            *)

Session(s) == [mac_tx |-> s, browsers |-> {}]

\* DashMap::insert(code, Session{..}): an existing entry is replaced.
sessions_insert(m, c, s) ==
    [k \in (DOMAIN m) \cup {c} |-> IF k = c THEN Session(s) ELSE m[k]]

\* A validation that accepts every code.
validate_session_code_any(m, c) == TRUE

validate_session_code(m, c) == c \in DOMAIN m

remove_session(m, c) == [k \in (DOMAIN m) \ {c} |-> m[k]]

add_browser(m, c, b) ==
    IF c \in DOMAIN m THEN [m EXCEPT ![c].browsers = @ \cup {b}] ELSE m

\* A removal that empties the browsers map of the session.
remove_browser_all(m, c, b) ==
    IF c \in DOMAIN m THEN [m EXCEPT ![c].browsers = {}] ELSE m

remove_browser(m, c, b) ==
    IF c \in DOMAIN m THEN [m EXCEPT ![c].browsers = @ \ {b}] ELSE m

\* A variant of BrowsersOf that finds no browser to send to.
BrowsersOf_none(m, c) == {}

\* The browsers a broadcast to `c` iterates over.
BrowsersOf(m, c) == IF c \in DOMAIN m THEN m[c].browsers ELSE {}

\* Some Sender of socket s's channel is still alive: the handler holds it
\* until it is moved into the map, then the map entry holds it.
HasSender(s) ==
    \/ pc[s] \in {"reg_check", "reg_insert", "b_add"}
    \/ \E c \in DOMAIN sessions :
          sessions[c].mac_tx = s \/ s \in sessions[c].browsers

\* mpsc::Sender::send(m).await on the channel of socket t: completes at once
\* when the receiver is gone (Err, ignored by `let _ =`) or a slot is free,
\* and otherwise suspends the caller until a slot is free.
SendReady(t) == rx[t] = "dropped" \/ Len(chan[t]) < ChanCap

ChanAfterSend(ch, t, m) ==
    IF rx[t] = "dropped" THEN ch ELSE [ch EXCEPT ![t] = Append(@, m)]

\* send_to_mac_client / send_text_to_mac_client: look the session up and
\* send on its mac_tx; nothing when the code has no entry.
MacSendReady(c) == c \in DOMAIN sessions => SendReady(sessions[c].mac_tx)

send_to_mac_client(ch, c, m) ==
    IF c \in DOMAIN sessions THEN ChanAfterSend(ch, sessions[c].mac_tx, m) ELSE ch

----------------------------------------------------------------------------
(* The frames environment clients send.                                    *)

RegisterText == Ctl("register", << "u-1" >>)
AuthText(S) == Ctl("auth", S)

AgentFirstFrames ==
    { TextFrame(RegisterText), BinaryFrame(<< 0 >>), TextFrame(Malformed) }

BrowserFirstFrames ==
    { TextFrame(AuthText(S)) : S \in TypedCodes }
        \cup { TextFrame(Ctl("auth_success", << >>)), CloseFrame }

FirstFrames(s) == IF s \in AgentSocks THEN AgentFirstFrames ELSE BrowserFirstFrames

\* A terminal frame [id_len][id][payload] for session id "s" whose payload
\* is the one byte n.
DataFrame(n) == BinaryFrame(<< 1, 115, n >>)

\* What a browser sends after auth: keystrokes, close_session, create_session
\* and a text the relay has no use for.
BrowserTexts ==
    { Ctl("close_session", << "s" >>), Ctl("create_session", << >>), Malformed }

SessionListText == Ctl("session_list", << >>)

----------------------------------------------------------------------------
(* handlers/ws.rs: handle_socket.                                          *)

\* The history of a socket add_browser has not run for.
NotAttached == [read |-> 0, pending |-> {}]

\* ws_handler: a client's socket is upgraded and handle_socket starts.
Upgrade(s) ==
    /\ pc[s] \in {"closed", "done"}
    /\ upgrades < MaxUpgrades
    /\ upgrades' = upgrades + 1
    /\ pc' = [pc EXCEPT ![s] = "open"]
    /\ code' = [code EXCEPT ![s] = NoCode]
    /\ chan' = [chan EXCEPT ![s] = << >>]
    /\ rx' = [rx EXCEPT ![s] = "none"]
    /\ out' = [out EXCEPT ![s] = << >>]
    /\ tries' = [tries EXCEPT ![s] = 0]
    /\ first' = [first EXCEPT ![s] = NoFrame]
    /\ joined' = [joined EXCEPT ![s] = 0]
    /\ att' = [att EXCEPT ![s] = NotAttached]
    /\ UNCHANGED <<sessions, bc_todo, bc_msg>>

\* receiver.next() yields None or Err: return without a reply.
FirstNone(s) ==
    /\ pc[s] = "open"
    /\ pc' = [pc EXCEPT ![s] = "done"]
    /\ UNCHANGED <<sessions, code, chan, rx, out, bc_todo, bc_msg, tries,
                   upgrades, first, joined, att>>

\* The reply of handle_socket to a first frame that opens no handler.
first_message_error(f) ==
    IF f.k # "text" THEN "First message must be JSON"
    ELSE IF ~from_str_ok(f.text) THEN "Invalid JSON"
    ELSE "First message must be Register or Auth"

\* A handle_socket that returns on such a frame without a reply.
FirstRejected_silent(s, f) ==
    /\ pc[s] = "open"
    /\ \/ f.k # "text"
       \/ ~from_str_ok(f.text)
       \/ f.text.type \notin {"register", "auth"}
    /\ pc' = [pc EXCEPT ![s] = "done"]
    /\ first' = [first EXCEPT ![s] = f]
    /\ UNCHANGED <<sessions, code, chan, rx, out, bc_todo, bc_msg, tries,
                   upgrades, joined, att>>

\* The first frame is no text frame, is no ControlMessage, or is a
\* ControlMessage other than register and auth.
FirstRejected(s, f) ==
    /\ pc[s] = "open"
    /\ \/ f.k # "text"
       \/ ~from_str_ok(f.text)
       \/ f.text.type \notin {"register", "auth"}
    /\ out' = [out EXCEPT ![s] = Append(@, ErrorFrame(first_message_error(f)))]
    /\ pc' = [pc EXCEPT ![s] = "done"]
    /\ first' = [first EXCEPT ![s] = f]
    /\ UNCHANGED <<sessions, code, chan, rx, bc_todo, bc_msg, tries,
                   upgrades, joined, att>>

\* register: handle_mac_client starts and creates its channel.
FirstRegister(s, f) ==
    /\ pc[s] = "open"
    /\ f.k = "text" /\ from_str_ok(f.text) /\ f.text.type = "register"
    /\ pc' = [pc EXCEPT ![s] = "reg_check"]
    /\ rx' = [rx EXCEPT ![s] = "held"]
    /\ first' = [first EXCEPT ![s] = f]
    /\ UNCHANGED <<sessions, code, chan, out, bc_todo, bc_msg, tries,
                   upgrades, joined, att>>

\* auth: handle_browser starts and uppercases the code.
FirstAuth(s, f) ==
    /\ pc[s] = "open"
    /\ f.k = "text" /\ from_str_ok(f.text) /\ f.text.type = "auth"
    /\ code' = [code EXCEPT ![s] = to_uppercase(f.text.arg)]
    /\ pc' = [pc EXCEPT ![s] = "b_validate"]
    /\ first' = [first EXCEPT ![s] = f]
    /\ UNCHANGED <<sessions, chan, rx, out, bc_todo, bc_msg, tries,
                   upgrades, joined, att>>

----------------------------------------------------------------------------
(* handlers/ws.rs: handle_mac_client.                                      *)

\* register_mac_client, the loop: a candidate that is already a key.
RegisterCollide(s, cand) ==
    /\ pc[s] = "reg_check"
    /\ validate_session_code(sessions, cand)
    /\ tries[s] < MaxTries
    /\ tries' = [tries EXCEPT ![s] = @ + 1]
    /\ UNCHANGED <<sessions, pc, code, chan, rx, out, bc_todo, bc_msg,
                   upgrades, first, joined, att>>

\* register_mac_client, the loop: contains_key(candidate) is false, break.
RegisterPass(s, cand) ==
    /\ pc[s] = "reg_check"
    /\ ~validate_session_code(sessions, cand)
    /\ code' = [code EXCEPT ![s] = cand]
    /\ pc' = [pc EXCEPT ![s] = "reg_insert"]
    /\ UNCHANGED <<sessions, chan, rx, out, bc_todo, bc_msg, tries,
                   upgrades, first, joined, att>>

\* register_mac_client, after the loop: sessions.insert(code, Session{..}).
\* The insert waits for the shard lock while a broadcast holds a reference
\* to the entry of the same key.
RegisterInsert(s) ==
    /\ pc[s] = "reg_insert"
    /\ \A a \in Socks : bc_todo[a] # {} => code[a] # code[s]
    /\ sessions' = sessions_insert(sessions, code[s], s)
    /\ pc' = [pc EXCEPT ![s] = "reg_reply"]
    /\ UNCHANGED <<code, chan, rx, out, bc_todo, bc_msg, tries,
                   upgrades, first, joined, att>>

\* registered{code} is written to the socket; the sender task is spawned.
RegisterReplyOk(s) ==
    /\ pc[s] = "reg_reply"
    /\ out' = [out EXCEPT ![s] = Append(@, TextFrame(Ctl("registered", code[s])))]
    /\ rx' = [rx EXCEPT ![s] = "task"]
    /\ pc' = [pc EXCEPT ![s] = "mac_loop"]
    /\ UNCHANGED <<sessions, code, chan, bc_todo, bc_msg, tries,
                   upgrades, first, joined, att>>

\* Writing registered{code} fails: remove_session and return.
RegisterReplyErr(s) ==
    /\ pc[s] = "reg_reply"
    /\ sessions' = remove_session(sessions, code[s])
    /\ rx' = [rx EXCEPT ![s] = "dropped"]
    /\ chan' = [chan EXCEPT ![s] = << >>]
    /\ pc' = [pc EXCEPT ![s] = "done"]
    /\ UNCHANGED <<code, out, bc_todo, bc_msg, tries, upgrades, first, joined, att>>

\* broadcast_to_browsers / broadcast_text_to_browsers: sessions.get(code),
\* then the iteration over the entry's browsers starts.
BroadcastStart(s, m) ==
    /\ bc_todo' = [bc_todo EXCEPT ![s] = BrowsersOf(sessions, code[s])]
    /\ bc_msg' = [bc_msg EXCEPT ![s] = m]

\* Forwarding of the session events only.
ForwardedTags_events == {"session_connected", "session_disconnected"}

\* The text frames of an agent the relay forwards to the browsers.
ForwardedTags == {"session_list", "session_connected", "session_disconnected"}

\* The reader reads a binary frame: broadcast it to the browsers.
MacRecvBinary(s, data) ==
    /\ pc[s] = "mac_loop"
    /\ bc_todo[s] = {}
    /\ BroadcastStart(s, BinaryFrame(data))
    /\ UNCHANGED <<sessions, pc, code, chan, rx, out, tries, upgrades, first, joined, att>>

\* The reader reads a text frame: the session messages are broadcast as
\* text, every other or unparsable text is ignored.
MacRecvText(s, text) ==
    /\ pc[s] = "mac_loop"
    /\ bc_todo[s] = {}
    /\ IF from_str_ok(text) /\ text.type \in ForwardedTags
       THEN BroadcastStart(s, TextFrame(text))
       ELSE UNCHANGED <<bc_todo, bc_msg>>
    /\ UNCHANGED <<sessions, pc, code, chan, rx, out, tries, upgrades, first, joined, att>>

\* One iteration of the broadcast loop: entry.value().send(msg).await.
BroadcastStep(s, b) ==
    /\ pc[s] \in {"mac_loop", "mac_bye"}
    /\ b \in bc_todo[s]
    /\ SendReady(b)
    /\ chan' = ChanAfterSend(chan, b, bc_msg[s])
    /\ bc_todo' = [bc_todo EXCEPT ![s] = @ \ {b}]
    /\ UNCHANGED <<sessions, pc, code, rx, out, bc_msg, tries,
                   upgrades, first, joined, att>>

\* The reader sees a close frame, a read error or the end of the stream:
\* the loop ends and the disconnect error is broadcast.
MacRecvClose(s) ==
    /\ pc[s] = "mac_loop"
    /\ bc_todo[s] = {}
    /\ pc' = [pc EXCEPT ![s] = "mac_bye"]
    /\ BroadcastStart(s, TextFrame(DisconnectError))
    /\ UNCHANGED <<sessions, code, chan, rx, out, tries, upgrades, first, joined, att>>

\* After the disconnect broadcast: send_task.abort(), remove_session(code).
MacCleanup(s) ==
    /\ pc[s] = "mac_bye"
    /\ bc_todo[s] = {}
    /\ rx' = [rx EXCEPT ![s] = "dropped"]
    /\ chan' = [chan EXCEPT ![s] = << >>]
    /\ sessions' = remove_session(sessions, code[s])
    /\ pc' = [pc EXCEPT ![s] = "done"]
    /\ UNCHANGED <<code, out, bc_todo, bc_msg, tries, upgrades, first, joined, att>>

----------------------------------------------------------------------------
(* handlers/ws.rs: the sender tasks of both handlers.                      *)

\* rx.recv() yields a message and sender.send writes it to the socket.
WriterSend(s) ==
    /\ rx[s] = "task"
    /\ chan[s] # << >>
    /\ out' = [out EXCEPT ![s] = Append(@, Head(chan[s]))]
    /\ chan' = [chan EXCEPT ![s] = Tail(@)]
    /\ UNCHANGED <<sessions, pc, code, rx, bc_todo, bc_msg, tries,
                   upgrades, first, joined, att>>

\* sender.send fails: the task breaks out of its loop and drops the receiver.
WriterSocketErr(s) ==
    /\ rx[s] = "task"
    /\ chan[s] # << >>
    /\ rx' = [rx EXCEPT ![s] = "dropped"]
    /\ chan' = [chan EXCEPT ![s] = << >>]
    /\ UNCHANGED <<sessions, pc, code, out, bc_todo, bc_msg, tries,
                   upgrades, first, joined, att>>

\* rx.recv() yields None: every Sender is gone and the channel is empty.
WriterEnd(s) ==
    /\ rx[s] = "task"
    /\ chan[s] = << >>
    /\ ~HasSender(s)
    /\ rx' = [rx EXCEPT ![s] = "dropped"]
    /\ UNCHANGED <<sessions, pc, code, chan, out, bc_todo, bc_msg, tries,
                   upgrades, first, joined, att>>

----------------------------------------------------------------------------
(* handlers/ws.rs: handle_browser.                                         *)

\* validate_session_code(code) is false: auth_failed and return.
BrowserValidateFail(s) ==
    /\ pc[s] = "b_validate"
    /\ ~validate_session_code(sessions, code[s])
    /\ out' = [out EXCEPT ![s] =
                 Append(@, TextFrame(Ctl("auth_failed", << "Invalid session code" >>)))]
    /\ pc' = [pc EXCEPT ![s] = "done"]
    /\ UNCHANGED <<sessions, code, chan, rx, bc_todo, bc_msg, tries,
                   upgrades, first, joined, att>>

\* validate_session_code(code) is true: the browser's channel is created.
BrowserValidateOk(s) ==
    /\ pc[s] = "b_validate"
    /\ validate_session_code(sessions, code[s])
    /\ rx' = [rx EXCEPT ![s] = "held"]
    /\ pc' = [pc EXCEPT ![s] = "b_add"]
    /\ UNCHANGED <<sessions, code, chan, out, bc_todo, bc_msg, tries,
                   upgrades, first, joined, att>>

\* add_browser(code, browser_id, browser_tx). A broadcast that is iterating
\* over the same entry visits the new browser or not, by the shard it lands in.
BrowserAdd(s) ==
    /\ pc[s] = "b_add"
    /\ sessions' = add_browser(sessions, code[s], s)
    /\ \E seen \in BOOLEAN :
         bc_todo' = [a \in Socks |->
                       IF /\ seen
                          /\ bc_todo[a] # {}
                          /\ code[a] = code[s]
                          /\ code[s] \in DOMAIN sessions
                       THEN bc_todo[a] \cup {s}
                       ELSE bc_todo[a]]
    /\ pc' = [pc EXCEPT ![s] = "b_reply"]
    /\ joined' = [joined EXCEPT ![s] =
                    IF code[s] \in DOMAIN sessions THEN sessions[code[s]].mac_tx ELSE 0]
    /\ UNCHANGED <<code, chan, rx, out, bc_msg, tries, upgrades, first>>

\* History of add_browser: the number of frames the relay had read, and the
\* messages whose broadcast in the browser's session was still iterating.
RecordAttach(s) ==
    att' = [att EXCEPT ![s] =
              [read |-> nframes,
               pending |-> { bc_msg[a] : a \in { x \in Socks :
                                bc_todo[x] # {} /\ code[x] = code[s] } }]]

\* auth_success is written to the socket.
BrowserReplyOk(s) ==
    /\ pc[s] = "b_reply"
    /\ out' = [out EXCEPT ![s] = Append(@, TextFrame(Ctl("auth_success", << >>)))]
    /\ pc' = [pc EXCEPT ![s] = "b_notify"]
    /\ UNCHANGED <<sessions, code, chan, rx, bc_todo, bc_msg, tries,
                   upgrades, first, joined, att>>

\* The end of a browser handler: its channel's receiver is dropped and
\* remove_browser(code, browser_id) takes it out of the map.
BrowserLeave(s) ==
    /\ rx' = [rx EXCEPT ![s] = "dropped"]
    /\ chan' = [chan EXCEPT ![s] = << >>]
    /\ sessions' = remove_browser(sessions, code[s], s)
    /\ bc_todo' = [a \in Socks |-> bc_todo[a] \ {s}]
    /\ pc' = [pc EXCEPT ![s] = "done"]

\* Writing auth_success fails: remove_browser and return.
BrowserReplyErr(s) ==
    /\ pc[s] = "b_reply"
    /\ BrowserLeave(s)
    /\ UNCHANGED <<code, out, bc_msg, tries, upgrades, first, joined, att>>

\* send_text_to_mac_client(code, browser_connected{browser_id}), then the
\* sender task is spawned.
BrowserNotify(s) ==
    /\ pc[s] = "b_notify"
    /\ MacSendReady(code[s])
    /\ LET ch == send_to_mac_client(chan, code[s],
                   TextFrame(Ctl("browser_connected", BrowserId(s))))
       IN chan' = ch
    /\ rx' = [rx EXCEPT ![s] = "task"]
    /\ pc' = [pc EXCEPT ![s] = "b_loop"]
    /\ UNCHANGED <<sessions, code, out, bc_todo, bc_msg, tries,
                   upgrades, first, joined, att>>

\* What handle_browser forwards to the agent for a frame it reads: a binary
\* frame as it is, close_session as a binary frame addressed to the session,
\* create_session as the text itself.
forwarded_to_mac(f) ==
    IF f.k = "binary" THEN f
    ELSE IF f.text.type = "close_session"
    THEN Tagged(BinaryFrame(close_session_frame(f.text.arg)), f.tag)
    ELSE f

is_forwarded(f) ==
    \/ f.k = "binary"
    \/ /\ f.k = "text"
       /\ from_str_ok(f.text)
       /\ f.text.type \in {"close_session", "create_session"}

\* The reader reads a frame that is forwarded to the agent.
BrowserRecvForward(s, f) ==
    /\ pc[s] = "b_loop"
    /\ is_forwarded(f)
    /\ MacSendReady(code[s])
    /\ chan' = send_to_mac_client(chan, code[s], forwarded_to_mac(f))
    /\ UNCHANGED <<sessions, pc, code, rx, out, bc_todo, bc_msg, tries,
                   upgrades, first, joined, att>>

\* The reader reads any other frame: nothing happens.
BrowserRecvIgnore(s, f) ==
    /\ pc[s] = "b_loop"
    /\ ~is_forwarded(f)
    /\ f.k # "close"
    /\ UNCHANGED <<sessions, pc, code, chan, rx, out, bc_todo, bc_msg, tries,
                   upgrades, first, joined, att>>

\* The reader sees a close frame, a read error or the end of the stream:
\* send_task.abort() and remove_browser.
BrowserClose(s) ==
    /\ pc[s] = "b_loop"
    /\ BrowserLeave(s)
    /\ UNCHANGED <<code, out, bc_msg, tries, upgrades, first, joined, att>>

----------------------------------------------------------------------------
(* relay/connection.rs: RelayClient::run, the reconnect loop.              *)

min(a, b) == IF a < b THEN a ELSE b

\* A delay that doubles without a cap.
delay_secs_uncapped(n) == 2^n

\* let delay_secs = (2u64).pow(self.reconnect_attempts.min(5));
delay_secs(n) == 2^min(n, 5)

BackoffInit ==
    /\ rc_pc = "connect"
    /\ reconnect_attempts = 0
    /\ rc_slept = << >>
    /\ rc_failed = 0
    /\ rc_passes = 0
    /\ rc_registered = FALSE

\* connect_async(&self.relay_url).await? returns an error.
ConnectFail ==
    /\ rc_pc = "connect"
    /\ Len(rc_slept) < MaxSleeps
    /\ rc_pc' = "sleep"
    /\ rc_failed' = rc_failed + 1
    /\ UNCHANGED <<reconnect_attempts, rc_slept, rc_passes, rc_registered>>

\* connect_async succeeds: Connected is emitted and the counter is reset.
ConnectOk ==
    /\ rc_pc = "connect"
    /\ Len(rc_slept) < MaxSleeps
    /\ reconnect_attempts' = 0
    /\ rc_pc' = "connected"
    /\ rc_failed' = 0
    /\ rc_passes' = 0
    /\ rc_registered' = FALSE
    /\ UNCHANGED <<rc_slept>>

\* connect_and_run returns after the connection was made: a clean close, a
\* Reconnect command, a read error or a failed send (Ok or Err alike).
ConnectionEnds ==
    /\ rc_pc = "connected"
    /\ rc_pc' = "sleep"
    /\ UNCHANGED <<reconnect_attempts, rc_slept, rc_failed, rc_passes, rc_registered>>

\* handle_text_message, the Registered arm, as the run loop sees it:
\* SessionCode is emitted; the counter is not touched.
ClientRegistered ==
    /\ rc_pc = "connected"
    /\ ~rc_registered
    /\ rc_registered' = TRUE
    /\ UNCHANGED <<rc_pc, reconnect_attempts, rc_slept, rc_failed, rc_passes>>

\* Disconnected is emitted, the loop sleeps delay_secs and counts the pass.
\* The record keeps, for the sleep: the delay, the number of the failed
\* connect it follows (from 0; -1 after a connection that was made and
\* lost) and the number of sleeps since the last connect before it.
BackoffSleep ==
    /\ rc_pc = "sleep"
    /\ rc_slept' = Append(rc_slept,
                          [delay |-> delay_secs(reconnect_attempts),
                           failed |-> rc_failed - 1,
                           pass |-> rc_passes])
    /\ reconnect_attempts' = reconnect_attempts + 1   \* u32; MaxSleeps is far below 2^32
    /\ rc_passes' = rc_passes + 1
    /\ rc_pc' = "connect"
    /\ UNCHANGED <<rc_failed, rc_registered>>

BackoffNext ==
    \/ ConnectFail /\ UNCHANGED notBackoff
    \/ ConnectOk /\ UNCHANGED notBackoff
    \/ ConnectionEnds /\ UNCHANGED notBackoff
    \/ ClientRegistered /\ UNCHANGED notBackoff
    \/ BackoffSleep /\ UNCHANGED notBackoff

----------------------------------------------------------------------------
(* relay/connection.rs: the binary frame codec.                            *)

\* String::from_utf8_lossy on one byte: the character of an ASCII byte the
\* model uses, U+FFFD for any other.
from_utf8_lossy_char(b) ==
    IF b >= 97 /\ b <= 122 THEN LOWER[b - 96]
    ELSE IF b >= 65 /\ b <= 90 THEN UPPER[b - 64]
    ELSE IF b >= 48 /\ b <= 57 THEN DIGITS[b - 47]
    ELSE IF b = 45 THEN "-"
    ELSE "U+FFFD"

from_utf8_lossy(bytes) == [i \in 1..Len(bytes) |-> from_utf8_lossy_char(bytes[i])]

\* send_terminal_data: [session_id.len() as u8][session_id][data]
send_terminal_data(session_id, data) ==
    << as_u8(Len(as_bytes(session_id))) >> \o as_bytes(session_id) \o data

\* {"type":"resize","cols":100,"rows":30}
RESIZE_PAYLOAD ==
    << 123, 34, 116, 121, 112, 101, 34, 58, 34, 114, 101, 115, 105, 122, 101,
       34, 44, 34, 99, 111, 108, 115, 34, 58, 49, 48, 48, 44, 34, 114, 111,
       119, 115, 34, 58, 51, 48, 125 >>
\* {"type":"resize","cols":65616,"rows":24}
RESIZE_WIDE_PAYLOAD ==
    << 123, 34, 116, 121, 112, 101, 34, 58, 34, 114, 101, 115, 105, 122, 101,
       34, 44, 34, 99, 111, 108, 115, 34, 58, 54, 53, 54, 49, 54, 44, 34, 114,
       111, 119, 115, 34, 58, 50, 52, 125 >>
\* {"type":"resize","cols":80}
RESIZE_NO_ROWS_PAYLOAD ==
    << 123, 34, 116, 121, 112, 101, 34, 58, 34, 114, 101, 115, 105, 122, 101,
       34, 44, 34, 99, 111, 108, 115, 34, 58, 56, 48, 125 >>
\* {"type":"other"}
OTHER_TYPE_PAYLOAD ==
    << 123, 34, 116, 121, 112, 101, 34, 58, 34, 111, 116, 104, 101, 114, 34, 125 >>
\* {}
EMPTY_OBJECT_PAYLOAD == << 123, 125 >>
\* {x
BROKEN_JSON_PAYLOAD == << 123, 120 >>

\* serde_json::from_str::<Value> on the payloads of the model, with what
\* json.get("type"), get("cols") and get("rows") then yield; -1 is None.
NoJson == [ok |-> FALSE, type |-> "", cols |-> -1, rows |-> -1]
Json(type, cols, rows) == [ok |-> TRUE, type |-> type, cols |-> cols, rows |-> rows]

serde_json_from_str(payload) ==
    IF payload = RESIZE_PAYLOAD THEN Json("resize", 100, 30)
    ELSE IF payload = RESIZE_WIDE_PAYLOAD THEN Json("resize", 65616, 24)
    ELSE IF payload = RESIZE_NO_ROWS_PAYLOAD THEN Json("resize", 80, -1)
    ELSE IF payload = OTHER_TYPE_PAYLOAD THEN Json("other", -1, -1)
    ELSE IF payload = EMPTY_OBJECT_PAYLOAD THEN Json("", -1, -1)
    ELSE IF payload = CLOSE_SESSION_PAYLOAD THEN Json("close_session", -1, -1)
    ELSE NoJson

\* `n as u16`
as_u16(n) == n % 65536

\* RelayEvent, the variants of the binary channel.
TerminalData(session_id, data) ==
    [kind |-> "TerminalData", session_id |-> session_id, data |-> data,
     cols |-> 0, rows |-> 0]
Resize(session_id, cols, rows) ==
    [kind |-> "Resize", session_id |-> session_id, data |-> << >>,
     cols |-> cols, rows |-> rows]
CloseSession(session_id) ==
    [kind |-> "CloseSession", session_id |-> session_id, data |-> << >>,
     cols |-> 0, rows |-> 0]

\* handle_binary_message: the events it sends on event_tx.
handle_binary_message(data) ==
    IF Len(data) < 2 THEN << >>
    ELSE LET id_len == data[1] IN
      IF Len(data) < 1 + id_len THEN << >>
      ELSE LET session_id == from_utf8_lossy(SubSeq(data, 2, 1 + id_len))
               payload == SubSeq(data, 2 + id_len, Len(data))
               json == IF payload # << >> /\ payload[1] = 123
                       THEN serde_json_from_str(payload) ELSE NoJson
           IN IF json.ok /\ json.type = "resize" /\ json.cols >= 0 /\ json.rows >= 0
              THEN << Resize(session_id, as_u16(json.cols), as_u16(json.rows)) >>
              ELSE IF json.ok /\ json.type = "close_session"
              THEN << CloseSession(session_id) >>
              ELSE << TerminalData(session_id, payload) >>

\* A session id of n characters.
LongId(n) == [i \in 1..n |-> "a"]

\* The session ids and the payloads given to send_terminal_data, and byte
\* strings that arrive without having been built by it.
CodecIds ==
    { LongId(n) : n \in 0..MaxShortId } \cup { LongId(U8_MAX), << "s", "-", "1" >> }

CodecPayloads ==
    { << >>, << 104 >>, << 104, 105 >>, << 123 >>, BROKEN_JSON_PAYLOAD,
      EMPTY_OBJECT_PAYLOAD, OTHER_TYPE_PAYLOAD, RESIZE_PAYLOAD,
      RESIZE_WIDE_PAYLOAD, RESIZE_NO_ROWS_PAYLOAD, CLOSE_SESSION_PAYLOAD }

RawFrames ==
    { << >>, << 0 >>, << 1 >>, << 5 >>, << 2, 97 >>, << 3, 97, 98 >>,
      << 200, 97, 98, 99 >>, << 0, 104 >>, << 1, 97 >>, << 1, 97, 104 >> }

CodecInit ==
    /\ cd_pc = "idle"
    /\ cd_id = << >>
    /\ cd_payload = << >>
    /\ cd_frame = << >>
    /\ cd_raw = FALSE
    /\ cd_events = << >>

\* RelayCommand::SendTerminalData: the frame is built and written.
CodecSend(id, p) ==
    /\ cd_pc = "idle"
    /\ cd_id' = id
    /\ cd_payload' = p
    /\ cd_frame' = send_terminal_data(id, p)
    /\ cd_raw' = FALSE
    /\ cd_pc' = "sent"
    /\ UNCHANGED <<cd_events>>

\* A binary frame of some other origin arrives.
CodecInject(bytes) ==
    /\ cd_pc = "idle"
    /\ cd_frame' = bytes
    /\ cd_raw' = TRUE
    /\ cd_pc' = "sent"
    /\ UNCHANGED <<cd_id, cd_payload, cd_events>>

\* The session ids a browser puts into close_session: those of the model
\* and one of 256 bytes.
CloseIds == CodecIds \cup { LongId(U8_MAX + 1) }

\* handle_browser, CloseSession{session_id}: the relay builds the binary
\* frame and sends it to the agent.
CodecCloseSession(id) ==
    /\ cd_pc = "idle"
    /\ cd_id' = id
    /\ cd_payload' = CLOSE_SESSION_PAYLOAD
    /\ cd_frame' = close_session_frame(id)
    /\ cd_raw' = TRUE
    /\ cd_pc' = "sent"
    /\ UNCHANGED <<cd_events>>

\* Message::Binary(data) is read: handle_binary_message(&data).
CodecReceive ==
    /\ cd_pc = "sent"
    /\ cd_events' = handle_binary_message(cd_frame)
    /\ cd_pc' = "received"
    /\ UNCHANGED <<cd_id, cd_payload, cd_frame, cd_raw>>

CodecNext ==
    \/ \E id \in CodecIds, p \in CodecPayloads : CodecSend(id, p) /\ UNCHANGED notCodec
    \/ \E bytes \in RawFrames : CodecInject(bytes) /\ UNCHANGED notCodec
    \/ \E id \in CloseIds : CodecCloseSession(id) /\ UNCHANGED notCodec
    \/ CodecReceive /\ UNCHANGED notCodec

----------------------------------------------------------------------------
(* tmux/mod.rs: process_commands, attach_to_session, read_tmux_output.     *)

\* The session ids uuid::Uuid::new_v4() yields: the n-th one is n.
SessionUuids == 1..MaxAttach
SessionNames == {"main", "dev"}
NoKill == [session_id |-> 0, name |-> ""]

\* TmuxEvent, the variants the model follows.
Attached(session_id, name) ==
    [ev |-> "Attached", session_id |-> session_id, name |-> name, data |-> 0]
Output(session_id, data) ==
    [ev |-> "Output", session_id |-> session_id, name |-> "", data |-> data]
Detached(session_id) ==
    [ev |-> "Detached", session_id |-> session_id, name |-> "", data |-> 0]
TmuxError(m) ==
    [ev |-> "Error", session_id |-> 0, name |-> m, data |-> 0]

\* HashMap::remove and HashMap::insert on the sessions map.
tm_remove(m, session_id) == [u \in (DOMAIN m) \ {session_id} |-> m[u]]
tm_insert(m, session_id, name) ==
    [u \in (DOMAIN m) \cup {session_id} |-> IF u = session_id THEN name ELSE m[u]]

\* tokio::runtime::Handle::try_current() in the thread read_tmux_output
\* starts with std::thread::spawn: that thread is no runtime thread and has
\* entered no runtime, so the call returns Err.
try_current_ok == FALSE

TmuxInit ==
    /\ tm_sessions = [u \in {} |-> ""]
    /\ tm_reader = [u \in SessionUuids |-> "none"]
    /\ tm_events = << >>
    /\ tm_pc = "idle"
    /\ tm_kill = NoKill
    /\ tm_uuids = 0
    /\ tm_chunks = 0
    /\ tm_lock = "free"
    /\ tmux_ls = {}
    /\ known_sessions = {}
    /\ wt_attach = ""
    /\ cp_attach = << >>

\* The data of the Output event that carries the captured scrollback; the
\* live chunks are numbered from 1.
SCROLLBACK == 255

\* A variant of attach_events that sends the scrollback before Attached.
attach_events_history_first(session_id, name, scrollback) ==
    (IF scrollback THEN << Output(session_id, SCROLLBACK) >> ELSE << >>)
        \o << Attached(session_id, name) >>

\* attach_to_session, the events it sends: Attached, then the output of
\* `tmux capture-pane` as one Output if the command succeeded with a
\* non-empty stdout.
attach_events(session_id, name, scrollback) ==
    << Attached(session_id, name) >>
        \o (IF scrollback THEN << Output(session_id, SCROLLBACK) >> ELSE << >>)

\* attach_to_session, from TmuxCommand::Attach or the session watcher: the
\* PTY is opened and `tmux attach-session` spawned in it, Attached and the
\* scrollback are sent, the session is stored under a fresh id and its
\* reader is spawned.
AttachWith(name, scrollback) ==
    /\ tm_lock = "free"
    /\ tm_pc # "killing"
    /\ tm_uuids < MaxAttach
    /\ LET session_id == tm_uuids + 1 IN
         /\ tm_uuids' = session_id
         /\ tm_events' = tm_events \o attach_events(session_id, name, scrollback)
         /\ tm_sessions' = tm_insert(tm_sessions, session_id, name)
         /\ tm_reader' = [tm_reader EXCEPT ![session_id] = "running"]
    /\ UNCHANGED <<tm_pc, tm_kill, tm_chunks>>
    /\ UNCHANGED <<tm_lock, tmux_ls, known_sessions, wt_attach, cp_attach>>

\* attach_to_session, with or without a captured scrollback.
TmuxAttach(name) == \E scrollback \in BOOLEAN : AttachWith(name, scrollback)

\* attach_to_session: openpty or spawn_command fails, Error is sent.
TmuxAttachFails ==
    /\ tm_lock = "free"
    /\ tm_pc # "killing"
    /\ tm_uuids < MaxAttach
    /\ Len(tm_events) < MaxAttach
    /\ tm_events' = Append(tm_events, TmuxError("Failed to attach"))
    /\ UNCHANGED <<tm_sessions, tm_reader, tm_pc, tm_kill, tm_uuids, tm_chunks>>
    /\ UNCHANGED <<tm_lock, tmux_ls, known_sessions, wt_attach, cp_attach>>

\* read_tmux_output: reader.read yields n > 0 bytes, sent as Output.
TmuxRead(session_id) ==
    /\ tm_reader[session_id] = "running"
    /\ tm_chunks < MaxChunks
    /\ tm_chunks' = tm_chunks + 1
    /\ tm_events' = Append(tm_events, Output(session_id, tm_chunks + 1))
    /\ UNCHANGED <<tm_sessions, tm_reader, tm_pc, tm_kill, tm_uuids>>
    /\ UNCHANGED <<tm_lock, tmux_ls, known_sessions, wt_attach, cp_attach>>

\* read_tmux_output: reader.read yields Ok(0) or Err, the loop breaks.
\* Detached is sent; the removal from the map runs only with a runtime handle.
TmuxReaderExit(session_id) ==
    /\ tm_reader[session_id] = "running"
    /\ tm_reader' = [tm_reader EXCEPT ![session_id] = "exited"]
    /\ tm_events' = Append(tm_events, Detached(session_id))
    /\ tm_sessions' = IF try_current_ok
                      THEN tm_remove(tm_sessions, session_id)
                      ELSE tm_sessions
    /\ UNCHANGED <<tm_pc, tm_kill, tm_uuids, tm_chunks>>
    /\ UNCHANGED <<tm_lock, tmux_ls, known_sessions, wt_attach, cp_attach>>

\* detach_session: Detached is sent if the session was in the map.
TmuxDetach(session_id) ==
    /\ tm_lock = "free"
    /\ tm_pc = "idle"
    /\ tm_sessions' = tm_remove(tm_sessions, session_id)
    /\ tm_events' = IF session_id \in DOMAIN tm_sessions
                    THEN Append(tm_events, Detached(session_id))
                    ELSE tm_events
    /\ UNCHANGED <<tm_reader, tm_pc, tm_kill, tm_uuids, tm_chunks>>
    /\ UNCHANGED <<tm_lock, tmux_ls, known_sessions, wt_attach, cp_attach>>

\* kill_session_by_id, first lock: the name is looked up; without an entry
\* the command ends here.
TmuxKillLookup(session_id) ==
    /\ tm_lock = "free"
    /\ tm_pc = "idle"
    /\ IF session_id \in DOMAIN tm_sessions
       THEN /\ tm_pc' = "killing"
            /\ tm_kill' = [session_id |-> session_id, name |-> tm_sessions[session_id]]
       ELSE UNCHANGED <<tm_pc, tm_kill>>
    /\ UNCHANGED <<tm_sessions, tm_reader, tm_events, tm_uuids, tm_chunks>>
    /\ UNCHANGED <<tm_lock, tmux_ls, known_sessions, wt_attach, cp_attach>>

\* kill_session_by_id, after `tmux kill-session` ran (ok or not): Error is
\* sent if it failed, then the entry is removed and Detached is sent.
TmuxKillFinish(ok) ==
    /\ tm_lock = "free"
    /\ tm_pc = "killing"
    /\ LET errs == IF ok THEN tm_events
                   ELSE Append(tm_events, TmuxError("Failed to kill session"))
       IN tm_events' = IF tm_kill.session_id \in DOMAIN tm_sessions
                       THEN Append(errs, Detached(tm_kill.session_id))
                       ELSE errs
    /\ tm_sessions' = tm_remove(tm_sessions, tm_kill.session_id)
    /\ tm_pc' = "idle"
    /\ tm_kill' = NoKill
    /\ UNCHANGED <<tm_reader, tm_uuids, tm_chunks>>
    /\ UNCHANGED <<tm_lock, tmux_ls, known_sessions, wt_attach, cp_attach>>

\* TmuxCommand::Shutdown: the map is cleared and process_commands returns.
TmuxShutdown ==
    /\ tm_lock = "free"
    /\ tm_pc = "idle"
    /\ tm_sessions' = [u \in {} |-> ""]
    /\ tm_pc' = "stopped"
    /\ UNCHANGED <<tm_reader, tm_events, tm_kill, tm_uuids, tm_chunks>>
    /\ UNCHANGED <<tm_lock, tmux_ls, known_sessions, wt_attach, cp_attach>>

\* write_to_session: the guard of `sessions` is taken, the session is found
\* and writer.write_all begins; the guard lives to the end of the function.
TmuxWriteStart(session_id) ==
    /\ tm_pc = "idle"
    /\ tm_lock = "free"
    /\ session_id \in DOMAIN tm_sessions
    /\ tm_pc' = "writing"
    /\ tm_lock' = "process_commands"
    /\ UNCHANGED <<tmux_ls, known_sessions, wt_attach, cp_attach>>
    /\ UNCHANGED <<tm_sessions, tm_reader, tm_events, tm_kill, tm_uuids, tm_chunks>>

\* resize_session: the guard is taken, the session is found and
\* master.resize begins.
TmuxResizeStart(session_id) ==
    /\ tm_pc = "idle"
    /\ tm_lock = "free"
    /\ session_id \in DOMAIN tm_sessions
    /\ tm_pc' = "resizing"
    /\ tm_lock' = "process_commands"
    /\ UNCHANGED <<tmux_ls, known_sessions, wt_attach, cp_attach>>
    /\ UNCHANGED <<tm_sessions, tm_reader, tm_events, tm_kill, tm_uuids, tm_chunks>>

\* write_all or resize returns (an error is logged); the function ends and
\* its guard is dropped.
TmuxIoEnd ==
    /\ tm_pc \in {"writing", "resizing"}
    /\ tm_pc' = "idle"
    /\ tm_lock' = "free"
    /\ UNCHANGED <<tmux_ls, known_sessions, wt_attach, cp_attach>>
    /\ UNCHANGED <<tm_sessions, tm_reader, tm_events, tm_kill, tm_uuids, tm_chunks>>

\* The user starts a tmux session, or ends one, outside the program.
TmuxServerNew(name) ==
    /\ name \notin tmux_ls
    /\ tmux_ls' = tmux_ls \cup {name}
    /\ UNCHANGED <<tm_sessions, tm_reader, tm_events, tm_pc, tm_kill, tm_uuids, tm_chunks,
                   tm_lock, known_sessions, wt_attach, cp_attach>>

TmuxServerEnd(name) ==
    /\ name \in tmux_ls
    /\ tmux_ls' = tmux_ls \ {name}
    /\ UNCHANGED <<tm_sessions, tm_reader, tm_events, tm_pc, tm_kill, tm_uuids, tm_chunks,
                   tm_lock, known_sessions, wt_attach, cp_attach>>

\* The order in which `tmux list-sessions` prints the names.
ListOrder == << "dev", "main" >>

\* list_tmux_sessions: the names of the server's sessions; nothing when the
\* command cannot be run or fails.
list_tmux_sessions(ok) ==
    IF ok THEN SelectSeq(ListOrder, LAMBDA name : name \in tmux_ls) ELSE << >>

\* watch_for_new_sessions: sessions_guard.values().any(|s| s.session_name == name)
already_attached(m, name) == \E u \in DOMAIN m : m[u] = name

\* attach_to_session as the watcher calls it, on the manager's state st:
\* with the PTY opened and tmux spawned the session is announced, stored
\* under a fresh id and read; otherwise Error is sent.
attach_to_session(st, name, spawned, scrollback) ==
    IF spawned
    THEN LET session_id == st.uuids + 1 IN
         [sessions |-> tm_insert(st.sessions, session_id, name),
          reader   |-> [st.reader EXCEPT ![session_id] = "running"],
          events   |-> st.events \o attach_events(session_id, name, scrollback),
          uuids    |-> session_id]
    ELSE [st EXCEPT !.events = Append(@, TmuxError("Failed to attach"))]

\* watch_for_new_sessions, the for loop of one poll over current_sessions:
\* a name that is not known and has no entry in the map is attached.
RECURSIVE watch_loop(_, _, _, _, _)
watch_loop(current, known, st, spawned, scrollback) ==
    IF current = << >>
    THEN st
    ELSE LET name == Head(current)
             next == IF name \notin known /\ ~already_attached(st.sessions, name)
                     THEN attach_to_session(st, name, spawned[name], scrollback)
                     ELSE st
         IN  watch_loop(Tail(current), known \cup {name}, next, spawned, scrollback)

\* watch_for_new_sessions, one pass of its loop after the sleep: the
\* sessions are listed, the new ones attached, and known_sessions keeps the
\* names just listed.
WatchPoll(ok, spawned, scrollback) ==
    /\ tm_lock = "free"
    /\ LET current == list_tmux_sessions(ok)
           current_names == { current[i] : i \in 1..Len(current) }
           fresh == { name \in current_names :
                        name \notin known_sessions /\ ~already_attached(tm_sessions, name) }
           st == watch_loop(current, known_sessions,
                            [sessions |-> tm_sessions, reader |-> tm_reader,
                             events |-> tm_events, uuids |-> tm_uuids],
                            spawned, scrollback)
       IN  /\ tm_uuids + Cardinality(fresh) <= MaxAttach
           /\ \A name \in fresh : ~spawned[name] => Len(tm_events) < MaxAttach
           /\ tm_sessions' = st.sessions
           /\ tm_reader' = st.reader
           /\ tm_events' = st.events
           /\ tm_uuids' = st.uuids
           /\ known_sessions' = { name \in known_sessions \cup current_names :
                                    name \in current_names }
    /\ UNCHANGED <<tm_pc, tm_kill, tm_chunks, tm_lock, tmux_ls, wt_attach, cp_attach>>

\* The manager's state as attach_to_session takes it.
AttachState ==
    [sessions |-> tm_sessions, reader |-> tm_reader, events |-> tm_events,
     uuids |-> tm_uuids]

\* The state attach_to_session leaves.
AttachResult(st) ==
    /\ tm_sessions' = st.sessions
    /\ tm_reader' = st.reader
    /\ tm_events' = st.events
    /\ tm_uuids' = st.uuids

\* Attaches in progress or asked for.
PendingAttaches == Len(cp_attach) + (IF wt_attach = "" THEN 0 ELSE 1)

\* watch_for_new_sessions, one iteration of the for loop up to the call of
\* attach_to_session: the name is new, it is inserted into known_sessions
\* and the map is searched for it under the lock, which is then released.
WatchFind(name) ==
    /\ wt_attach = ""
    /\ tm_lock = "free"
    /\ name \in tmux_ls /\ name \notin known_sessions
    /\ tm_uuids + PendingAttaches < MaxAttach
    /\ known_sessions' = known_sessions \cup {name}
    /\ wt_attach' = IF already_attached(tm_sessions, name) THEN "" ELSE name
    /\ UNCHANGED <<tm_sessions, tm_reader, tm_events, tm_pc, tm_kill, tm_uuids, tm_chunks,
                   tm_lock, tmux_ls, cp_attach>>

\* watch_for_new_sessions: the attach_to_session it awaits returns.
WatchAttachEnd(spawned, scrollback) ==
    /\ wt_attach # ""
    /\ tm_lock = "free"
    /\ ~spawned => Len(tm_events) < MaxAttach
    /\ AttachResult(attach_to_session(AttachState, wt_attach, spawned, scrollback))
    /\ wt_attach' = ""
    /\ UNCHANGED <<tm_pc, tm_kill, tm_chunks, tm_lock, tmux_ls, known_sessions, cp_attach>>

\* watch_for_new_sessions, the end of a poll: known_sessions keeps the
\* names that were listed.
WatchRetain ==
    /\ wt_attach = ""
    /\ known_sessions' = { name \in known_sessions : name \in tmux_ls }
    /\ UNCHANGED <<tm_sessions, tm_reader, tm_events, tm_pc, tm_kill, tm_uuids, tm_chunks,
                   tm_lock, tmux_ls, wt_attach, cp_attach>>

\* TmuxCommand::NewSession, create_and_attach: `tmux new-session -d -s name`
\* succeeds if the server has no session of that name, and the attach
\* follows; otherwise Error is sent.
CmdNewSession(name) ==
    /\ tm_pc = "idle" /\ cp_attach = << >>
    /\ tm_uuids + PendingAttaches < MaxAttach
    /\ IF name \notin tmux_ls
       THEN /\ tmux_ls' = tmux_ls \cup {name}
            /\ cp_attach' = << name >>
            /\ UNCHANGED tm_events
       ELSE /\ Len(tm_events) < MaxAttach
            /\ tm_events' = Append(tm_events, TmuxError("Failed to create session"))
            /\ UNCHANGED <<tmux_ls, cp_attach>>
    /\ UNCHANGED <<tm_sessions, tm_reader, tm_pc, tm_kill, tm_uuids, tm_chunks,
                   tm_lock, known_sessions, wt_attach>>

\* TmuxCommand::Attach: attach_to_session is called for the name.
CmdAttach(name) ==
    /\ tm_pc = "idle" /\ cp_attach = << >>
    /\ tm_uuids + PendingAttaches < MaxAttach
    /\ cp_attach' = << name >>
    /\ UNCHANGED <<tm_sessions, tm_reader, tm_events, tm_pc, tm_kill, tm_uuids, tm_chunks,
                   tm_lock, tmux_ls, known_sessions, wt_attach>>

\* TmuxCommand::AttachAll, attach_all_sessions: the sessions are listed, the
\* attached names are read under the lock, and the others are attached one
\* after the other.
CmdAttachAll ==
    /\ tm_pc = "idle" /\ cp_attach = << >>
    /\ tm_lock = "free"
    /\ LET todo == SelectSeq(list_tmux_sessions(TRUE),
                             LAMBDA name : ~already_attached(tm_sessions, name))
       IN  /\ tm_uuids + PendingAttaches + Len(todo) <= MaxAttach
           /\ cp_attach' = todo
    /\ UNCHANGED <<tm_sessions, tm_reader, tm_events, tm_pc, tm_kill, tm_uuids, tm_chunks,
                   tm_lock, tmux_ls, known_sessions, wt_attach>>

\* process_commands: the attach_to_session it awaits returns.
CmdAttachEnd(spawned, scrollback) ==
    /\ cp_attach # << >>
    /\ tm_lock = "free"
    /\ ~spawned => Len(tm_events) < MaxAttach
    /\ AttachResult(attach_to_session(AttachState, Head(cp_attach), spawned, scrollback))
    /\ cp_attach' = Tail(cp_attach)
    /\ UNCHANGED <<tm_pc, tm_kill, tm_chunks, tm_lock, tmux_ls, known_sessions, wt_attach>>

\* The watcher and the command processor, each between its check and the
\* insert of its attach, next to the tmux server and the readers.
NextRace ==
    \/ \E name \in SessionNames : TmuxServerNew(name) /\ UNCHANGED notTmux
    \/ \E name \in SessionNames : TmuxServerEnd(name) /\ UNCHANGED notTmux
    \/ \E name \in SessionNames : WatchFind(name) /\ UNCHANGED notTmux
    \/ \E spawned \in BOOLEAN, scrollback \in BOOLEAN :
          WatchAttachEnd(spawned, scrollback) /\ UNCHANGED notTmux
    \/ WatchRetain /\ UNCHANGED notTmux
    \/ \E name \in SessionNames : CmdNewSession(name) /\ UNCHANGED notTmux
    \/ \E name \in SessionNames : CmdAttach(name) /\ UNCHANGED notTmux
    \/ CmdAttachAll /\ UNCHANGED notTmux
    \/ \E spawned \in BOOLEAN, scrollback \in BOOLEAN :
          CmdAttachEnd(spawned, scrollback) /\ UNCHANGED notTmux
    \/ \E u \in SessionUuids : TmuxReaderExit(u) /\ UNCHANGED notTmux

\* The watcher next to the tmux server, the readers and Detach.
NextWatch ==
    \/ \E name \in SessionNames : TmuxServerNew(name) /\ UNCHANGED notTmux
    \/ \E name \in SessionNames : TmuxServerEnd(name) /\ UNCHANGED notTmux
    \/ \E ok \in BOOLEAN, spawned \in [SessionNames -> BOOLEAN], scrollback \in BOOLEAN :
          WatchPoll(ok, spawned, scrollback) /\ UNCHANGED notTmux
    \/ \E u \in SessionUuids : TmuxReaderExit(u) /\ UNCHANGED notTmux
    \/ \E u \in SessionUuids : TmuxDetach(u) /\ UNCHANGED notTmux

\* Write and Resize commands for the attached sessions, next to the
\* watcher's attach, the readers and Detach.
NextLock ==
    \/ \E name \in SessionNames : TmuxAttach(name) /\ UNCHANGED notTmux
    \/ \E u \in SessionUuids : TmuxRead(u) /\ UNCHANGED notTmux
    \/ \E u \in SessionUuids : TmuxReaderExit(u) /\ UNCHANGED notTmux
    \/ \E u \in SessionUuids : TmuxDetach(u) /\ UNCHANGED notTmux
    \/ \E u \in SessionUuids : TmuxWriteStart(u) /\ UNCHANGED notTmux
    \/ \E u \in SessionUuids : TmuxResizeStart(u) /\ UNCHANGED notTmux
    \/ TmuxIoEnd /\ UNCHANGED notTmux

TmuxNext ==
    \/ \E name \in SessionNames : TmuxAttach(name) /\ UNCHANGED notTmux
    \/ TmuxAttachFails /\ UNCHANGED notTmux
    \/ \E u \in SessionUuids : TmuxRead(u) /\ UNCHANGED notTmux
    \/ \E u \in SessionUuids : TmuxReaderExit(u) /\ UNCHANGED notTmux
    \/ \E u \in SessionUuids : TmuxDetach(u) /\ UNCHANGED notTmux
    \/ \E u \in SessionUuids : TmuxKillLookup(u) /\ UNCHANGED notTmux
    \/ \E ok \in BOOLEAN : TmuxKillFinish(ok) /\ UNCHANGED notTmux
    \/ TmuxShutdown /\ UNCHANGED notTmux

----------------------------------------------------------------------------
(* main.rs and relay/connection.rs: the agent between relay and PTYs.      *)

\* The socket of the agent process at the relay.
AgentSock == 1

\* A RelayEvent of the text channel, and an event with the history tag of
\* the frame it was made from.
RelayEv(kind, arg) ==
    [kind |-> kind, session_id |-> arg, data |-> << >>, cols |-> 0, rows |-> 0]
Ev(e, tag) == [e |-> e, tag |-> tag]

\* handle_text_message: the events it sends for a ControlMessage.
handle_text_message(text) ==
    IF text.type = "registered" THEN << RelayEv("SessionCode", text.arg) >>
    ELSE IF text.type = "browser_connected" THEN << RelayEv("BrowserConnected", text.arg) >>
    ELSE IF text.type = "browser_disconnected"
    THEN << RelayEv("BrowserDisconnected", text.arg) >>
    ELSE IF text.type = "error" THEN << RelayEv("Error", text.arg) >>
    ELSE IF text.type = "create_session" THEN << RelayEv("CreateSession", << >>) >>
    ELSE << >>

\* The events the client sends on event_tx for a frame it reads.
events_of(f) ==
    LET es == IF f.k = "binary" THEN handle_binary_message(f.data)
              ELSE IF f.k = "text" THEN handle_text_message(f.text)
              ELSE << >>
    IN [i \in 1..Len(es) |-> Ev(es[i], f.tag)]

\* The session id string of the n-th session of the PTY manager.
uuid_str(u) == << DIGITS[u + 1] >>

\* RelayCommand.
RelayCmd(cmd, session_id, data) == [cmd |-> cmd, session_id |-> session_id, data |-> data]

\* The frame the select loop writes for a RelayCommand.
frame_of(c) ==
    IF c.cmd = "SendTerminalData"
    THEN BinaryFrame(send_terminal_data(c.session_id, c.data))
    ELSE IF c.cmd = "SendSessionList" THEN TextFrame(Ctl("session_list", c.session_id))
    ELSE IF c.cmd = "SendSessionConnected"
    THEN TextFrame(Ctl("session_connected", c.session_id))
    ELSE TextFrame(Ctl("session_disconnected", c.session_id))

\* session_list.retain(|(id, _)| id != &session_id); the model keeps the
\* ids of the list, one character each.
list_retain(list, id) == SelectSeq(list, LAMBDA i : << i >> # id)

\* PtyCommand, with the history tag of the browser frame it came from.
PtyCmd(cmd, e, tag) ==
    [cmd |-> cmd, session_id |-> e.session_id, data |-> e.data, tag |-> tag]

\* A variant of event_tx.send that lets new events overtake waiting ones.
event_tx_send_front(q, es) == es \o q

\* event_tx.send(..) on the std mpsc channel of RelayEvents, for the
\* events of one frame: they queue behind the ones not yet received.
event_tx_send(q, es) == q \o es

\* A variant of the unbounded send that lets a message overtake the queue.
unbounded_send_front(q, m) == << m >> \o q

\* tokio UnboundedSender::send on relay_cmd_tx and pty_cmd_tx.
unbounded_send(q, m) == Append(q, m)

PipeInit ==
    /\ ag_up = << >>
    /\ ag_rd = 0
    /\ relay_events = << >>
    /\ relay_cmds = << >>
    /\ pty_cmds = << >>
    /\ pe_rd = 0
    /\ session_list = << >>
    /\ pe_hold = << >>
    /\ fr_hold = << >>

\* connect_and_run up to its loop: connect_async succeeds as the relay
\* upgrades the socket, Connected is emitted, Register is written.
ClientConnect ==
    /\ ag_up' = << TextFrame(RegisterText) >>
    /\ ag_rd' = 0
    /\ relay_events' = event_tx_send(relay_events,
                                      << Ev(RelayEv("Connected", << >>), NoTag) >>)
    /\ UNCHANGED <<relay_cmds, pty_cmds, pe_rd, session_list, pe_hold, fr_hold>>

\* The relay takes the next frame of the agent off the socket.
AgentFrameRead ==
    /\ ag_up # << >>
    /\ ag_up' = Tail(ag_up)
    /\ UNCHANGED <<ag_rd, relay_events, relay_cmds, pty_cmds, pe_rd, session_list, pe_hold, fr_hold>>

\* handle_text_message returns Err for the frame: serde_json::from_str
\* fails on the text.
TextFails(f) == f.k = "text" /\ ~from_str_ok(f.text)

\* The select loop, read.next(): a text or binary frame of the relay is
\* handled and its events are sent on event_tx.
ClientRecv ==
    /\ rc_pc = "connected"
    /\ ag_rd < Len(out[AgentSock])
    /\ ~TextFails(out[AgentSock][ag_rd + 1])
    /\ ag_rd' = ag_rd + 1
    /\ relay_events' = event_tx_send(relay_events, events_of(out[AgentSock][ag_rd + 1]))
    /\ UNCHANGED <<ag_up, relay_cmds, pty_cmds, pe_rd, session_list, pe_hold, fr_hold>>

\* The select loop, read.next(): handle_text_message(&text)? returns Err
\* and connect_and_run returns it; the run loop goes on to its sleep.
ClientRecvErr ==
    /\ rc_pc = "connected"
    /\ ag_rd < Len(out[AgentSock])
    /\ TextFails(out[AgentSock][ag_rd + 1])
    /\ ag_rd' = ag_rd + 1
    /\ rc_pc' = "sleep"
    /\ UNCHANGED <<ag_up, relay_events, relay_cmds, pty_cmds, pe_rd, session_list, pe_hold, fr_hold>>
    /\ UNCHANGED <<reconnect_attempts, rc_slept, rc_failed, rc_passes, rc_registered>>

\* run_background_tasks, BackgroundCommand::ReconnectRelay: the user asks
\* for a new session code and Reconnect is sent on relay_cmd_tx.
UserReconnect ==
    /\ relay_cmds' = unbounded_send(relay_cmds, RelayCmd("Reconnect", << >>, << >>))
    /\ UNCHANGED <<ag_up, ag_rd, relay_events, pty_cmds, pe_rd, session_list, pe_hold, fr_hold>>

\* The select loop, RelayCommand::Reconnect: a close frame is written (its
\* result is discarded) and the loop breaks, so connect_and_run returns Ok.
ClientReconnect ==
    /\ rc_pc = "connected"
    /\ relay_cmds # << >>
    /\ Head(relay_cmds).cmd = "Reconnect"
    /\ relay_cmds' = Tail(relay_cmds)
    /\ ag_up' = Append(ag_up, CloseFrame)
    /\ rc_pc' = "sleep"
    /\ UNCHANGED <<ag_rd, relay_events, pty_cmds, pe_rd, session_list, pe_hold, fr_hold>>
    /\ UNCHANGED <<reconnect_attempts, rc_slept, rc_failed, rc_passes, rc_registered>>

\* A run that goes back to connecting without telling the main thread.
ClientDisconnected_silent ==
    /\ UNCHANGED <<ag_up, ag_rd, relay_events, relay_cmds, pty_cmds, pe_rd, session_list, pe_hold, fr_hold>>

\* run, after connect_and_run has returned: Disconnected is sent on event_tx.
ClientDisconnected ==
    /\ relay_events' = event_tx_send(relay_events,
                                      << Ev(RelayEv("Disconnected", << >>), NoTag) >>)
    /\ UNCHANGED <<ag_up, ag_rd, relay_cmds, pty_cmds, pe_rd, session_list, pe_hold, fr_hold>>

\* The select loop, command_rx.recv(): the command's frame is written to
\* the socket; a failed write is logged and the loop goes on.
ClientSend(ok) ==
    /\ rc_pc = "connected"
    /\ relay_cmds # << >>
    /\ Head(relay_cmds).cmd # "Reconnect"
    /\ relay_cmds' = Tail(relay_cmds)
    /\ ag_up' = IF ok THEN Append(ag_up, frame_of(Head(relay_cmds))) ELSE ag_up
    /\ UNCHANGED <<ag_rd, relay_events, pty_cmds, pe_rd, session_list, pe_hold, fr_hold>>

\* forward_relay_events, one event: TerminalData becomes PtyCommand::Write,
\* CloseSession becomes PtyCommand::KillSession, BrowserConnected sends the
\* session list to the relay; the others go to the UI only.
ForwardRelayEvent ==
    /\ relay_events # << >>
    /\ relay_events' = Tail(relay_events)
    /\ LET x == Head(relay_events) IN
         /\ pty_cmds' =
              IF x.e.kind = "TerminalData"
              THEN unbounded_send(pty_cmds, PtyCmd("Write", x.e, x.tag))
              ELSE IF x.e.kind = "CloseSession"
              THEN unbounded_send(pty_cmds, PtyCmd("KillSession", x.e, x.tag))
              ELSE pty_cmds
         /\ relay_cmds' =
              IF x.e.kind = "BrowserConnected"
              THEN unbounded_send(relay_cmds, RelayCmd("SendSessionList", session_list, << >>))
              ELSE relay_cmds
    /\ UNCHANGED <<ag_up, ag_rd, pe_rd, session_list, pe_hold, fr_hold>>

\* The pty_event task, one event of the PTY manager: Attached and Detached
\* update the session list and notify the relay, Output is sent on as
\* terminal data.
ForwardPtyEvent ==
    /\ pe_rd < Len(tm_events)
    /\ pe_rd' = pe_rd + 1
    /\ LET x == tm_events[pe_rd + 1]
           id == uuid_str(x.session_id)
       IN IF x.ev = "Attached"
          THEN /\ session_list' = session_list \o id
               /\ relay_cmds' = unbounded_send(relay_cmds,
                                       RelayCmd("SendSessionConnected", id, << >>))
          ELSE IF x.ev = "Detached"
          THEN /\ session_list' = list_retain(session_list, id)
               /\ relay_cmds' = unbounded_send(relay_cmds,
                                       RelayCmd("SendSessionDisconnected", id, << >>))
          ELSE IF x.ev = "Output"
          THEN /\ relay_cmds' = unbounded_send(relay_cmds,
                                       RelayCmd("SendTerminalData", id, << x.data >>))
               /\ UNCHANGED session_list
          ELSE UNCHANGED <<relay_cmds, session_list>>
    /\ UNCHANGED <<ag_up, ag_rd, relay_events, pty_cmds, pe_hold, fr_hold>>

\* The pty_event task, the first part of an Attached or Detached event:
\* the shared list is changed under its mutex, which is released before the
\* relay is told. An Output event is sent on at once.
PtyListUpdate ==
    /\ pe_hold = << >>
    /\ pe_rd < Len(tm_events)
    /\ pe_rd' = pe_rd + 1
    /\ LET x == tm_events[pe_rd + 1]
           id == uuid_str(x.session_id)
       IN IF x.ev = "Attached"
          THEN /\ session_list' = session_list \o id
               /\ pe_hold' = << RelayCmd("SendSessionConnected", id, << >>) >>
               /\ UNCHANGED relay_cmds
          ELSE IF x.ev = "Detached"
          THEN /\ session_list' = list_retain(session_list, id)
               /\ pe_hold' = << RelayCmd("SendSessionDisconnected", id, << >>) >>
               /\ UNCHANGED relay_cmds
          ELSE IF x.ev = "Output"
          THEN /\ relay_cmds' = unbounded_send(relay_cmds,
                                       RelayCmd("SendTerminalData", id, << x.data >>))
               /\ UNCHANGED <<session_list, pe_hold>>
          ELSE UNCHANGED <<relay_cmds, session_list, pe_hold>>
    /\ UNCHANGED <<ag_up, ag_rd, relay_events, pty_cmds, fr_hold>>

\* The pty_event task, the second part: relay_cmd_tx_for_pty.send.
PtyNotifyRelay ==
    /\ pe_hold # << >>
    /\ relay_cmds' = unbounded_send(relay_cmds, Head(pe_hold))
    /\ pe_hold' = << >>
    /\ UNCHANGED <<ag_up, ag_rd, relay_events, pty_cmds, pe_rd, session_list, fr_hold>>

\* forward_relay_events on BrowserConnected, the first part:
\* session_list.lock().unwrap().clone(), the guard dropped at once.
RelayListClone ==
    /\ fr_hold = << >>
    /\ relay_events # << >>
    /\ Head(relay_events).e.kind = "BrowserConnected"
    /\ relay_events' = Tail(relay_events)
    /\ fr_hold' = << session_list >>
    /\ UNCHANGED <<ag_up, ag_rd, relay_cmds, pty_cmds, pe_rd, session_list, pe_hold>>

\* forward_relay_events on BrowserConnected, the second part:
\* relay_cmd_tx.send(SendSessionList { sessions }).
RelayListSend ==
    /\ fr_hold # << >>
    /\ relay_cmds' = unbounded_send(relay_cmds,
                                    RelayCmd("SendSessionList", Head(fr_hold), << >>))
    /\ fr_hold' = << >>
    /\ UNCHANGED <<ag_up, ag_rd, relay_events, pty_cmds, pe_rd, session_list, pe_hold>>

\* forward_relay_events, an event other than BrowserConnected.
RelayOtherEvent ==
    /\ fr_hold = << >>
    /\ relay_events # << >>
    /\ Head(relay_events).e.kind # "BrowserConnected"
    /\ ForwardRelayEvent

----------------------------------------------------------------------------
(* main.rs: the ui channel and the UI thread.                              *)

\* UiEvent, the variants the model follows.
UiEv(kind, id) == [ui |-> kind, id |-> id]

UiInit ==
    /\ ui_events = << >>
    /\ browser_count = 0
    /\ shell_count = 0

\* forward_relay_events: the UiEvent made of a RelayEvent; CloseSession and
\* CreateSession `continue` without one.
ui_event_of_relay(e) ==
    IF e.kind = "Connected" THEN << UiEv("RelayConnected", << >>) >>
    ELSE IF e.kind = "Disconnected" THEN << UiEv("RelayDisconnected", << >>) >>
    ELSE IF e.kind = "SessionCode" THEN << UiEv("SessionCode", e.session_id) >>
    ELSE IF e.kind = "BrowserConnected" THEN << UiEv("BrowserConnected", e.session_id) >>
    ELSE IF e.kind = "BrowserDisconnected"
    THEN << UiEv("BrowserDisconnected", e.session_id) >>
    ELSE IF e.kind = "Error" THEN << UiEv("RelayError", e.session_id) >>
    ELSE IF e.kind = "TerminalData" THEN << UiEv("TerminalDataFromRelay", e.session_id) >>
    ELSE << >>

\* The pty_event task: the UiEvent made of an event of the PTY manager.
ui_event_of_pty(x) ==
    IF x.ev = "Attached" THEN << UiEv("ShellConnected", uuid_str(x.session_id)) >>
    ELSE IF x.ev = "Detached" THEN << UiEv("ShellDisconnected", uuid_str(x.session_id)) >>
    ELSE << >>

\* forward_relay_events, ui_tx.send(ui_event) for the event it has taken.
UiSendRelay ==
    /\ relay_events # << >>
    /\ ui_events' = ui_events \o ui_event_of_relay(Head(relay_events).e)
    /\ UNCHANGED <<browser_count, shell_count>>

\* The pty_event task, ui_tx_pty.send for the event it has taken.
UiSendPty ==
    /\ pe_rd < Len(tm_events)
    /\ ui_events' = ui_events \o ui_event_of_pty(tm_events[pe_rd + 1])
    /\ UNCHANGED <<browser_count, shell_count>>

\* usize::saturating_sub(1)
saturating_sub_1(n) == IF n = 0 THEN 0 ELSE n - 1

\* handle_ui_events, one event applied to the two counters.
ui_apply(st, ev) ==
    IF ev.ui = "BrowserConnected" THEN [st EXCEPT !.browser_count = @ + 1]
    ELSE IF ev.ui = "BrowserDisconnected"
    THEN [st EXCEPT !.browser_count = saturating_sub_1(@)]
    ELSE IF ev.ui = "ShellConnected" THEN [st EXCEPT !.shell_count = @ + 1]
    ELSE IF ev.ui = "ShellDisconnected"
    THEN [st EXCEPT !.shell_count = saturating_sub_1(@)]
    ELSE st

RECURSIVE ui_drain(_, _)
ui_drain(st, evs) ==
    IF evs = << >> THEN st ELSE ui_drain(ui_apply(st, Head(evs)), Tail(evs))

\* handle_ui_events: `while let Ok(event) = ui_rx.try_recv()` takes every
\* pending event.
handle_ui_events ==
    /\ ui_events # << >>
    /\ LET st == ui_drain([browser_count |-> browser_count, shell_count |-> shell_count],
                          ui_events)
       IN  /\ browser_count' = st.browser_count
           /\ shell_count' = st.shell_count
    /\ ui_events' = << >>

----------------------------------------------------------------------------
(* The relay broker serving environment clients.                           *)

EmptyMap == [c \in {} |-> Session(0)]

RelayInit ==
    /\ sessions = EmptyMap
    /\ pc = [s \in Socks |-> "closed"]
    /\ code = [s \in Socks |-> NoCode]
    /\ chan = [s \in Socks |-> << >>]
    /\ rx = [s \in Socks |-> "none"]
    /\ out = [s \in Socks |-> << >>]
    /\ bc_todo = [s \in Socks |-> {}]
    /\ bc_msg = [s \in Socks |-> CloseFrame]
    /\ tries = [s \in Socks |-> 0]
    /\ upgrades = 0
    /\ first = [s \in Socks |-> NoFrame]
    /\ joined = [s \in Socks |-> 0]
    /\ att = [s \in Socks |-> NotAttached]

----------------------------------------------------------------------------
(* mac-client: main.rs, the cloudflared tunnel supervisor.                 *)

\* A word of a stderr line is the sequence of its pieces; a line is the
\* sequence of its whitespace-separated words (str::split_whitespace).
HTTPS == "https://"
TRYCLOUDFLARE == "trycloudflare.com"
UrlFoo == << HTTPS, "foo-bar-baz.", TRYCLOUDFLARE >>
UrlQux == << HTTPS, "qux.", TRYCLOUDFLARE >>
UrlPlain == << "http://", "foo-bar-baz.", TRYCLOUDFLARE >>
UrlOther == << HTTPS, "example.com" >>
Inf == << "INF" >>
Bar == << "|" >>

\* The lines cloudflared writes in the model.
TunnelLines ==
    { << Inf, Bar, UrlFoo, Bar >>,
      << Inf, UrlQux >>,
      << Inf, UrlOther, UrlPlain >>,
      << UrlPlain, UrlQux, UrlFoo >>,
      << >> }

MaxLines == 4

\* str::starts_with and str::contains on a word.
starts_with(word, prefix) == Len(word) > 0 /\ word[1] = prefix
contains(word, piece) == \E i \in 1..Len(word) : word[i] = piece

\* extract_tunnel_url: the first word that starts with https:// and
\* contains trycloudflare.com, as a sequence of at most one word (Option).
extract_tunnel_url(line) ==
    LET hits == { i \in 1..Len(line) :
                     starts_with(line[i], HTTPS) /\ contains(line[i], TRYCLOUDFLARE) }
    IN  IF hits = {} THEN << >>
        ELSE << line[CHOOSE i \in hits : \A j \in hits : i <= j] >>

TunnelUrl(url) == [ui |-> "TunnelUrl", url |-> url]
RelayError == [ui |-> "RelayError", url |-> << >>]

TunnelInit ==
    /\ tn_pc = "idle"
    /\ tn_lines = << >>
    /\ tn_events = << >>

\* Command::spawn fails: RelayError is sent and the function returns.
TunnelSpawnFails ==
    /\ tn_pc = "idle"
    /\ tn_pc' = "done"
    /\ tn_events' = Append(tn_events, RelayError)
    /\ UNCHANGED tn_lines

\* Command::spawn succeeds; the stderr loop starts.
TunnelSpawn ==
    /\ tn_pc = "idle"
    /\ tn_pc' = "reading"
    /\ UNCHANGED <<tn_lines, tn_events>>

\* One pass of the stderr loop over an Ok(line).
TunnelLine(line) ==
    /\ tn_pc = "reading"
    /\ Len(tn_lines) < MaxLines
    /\ tn_lines' = Append(tn_lines, line)
    /\ LET url == extract_tunnel_url(line)
       IN  tn_events' = IF url # << >> THEN Append(tn_events, TunnelUrl(url[1]))
                        ELSE tn_events
    /\ UNCHANGED tn_pc

\* The stderr loop ends: a read error breaks it, or stderr is closed.
TunnelEnds ==
    /\ tn_pc = "reading"
    /\ tn_pc' = "done"
    /\ UNCHANGED <<tn_lines, tn_events>>

TunnelNext ==
    \/ TunnelSpawnFails /\ UNCHANGED notTunnel
    \/ TunnelSpawn /\ UNCHANGED notTunnel
    \/ \E line \in TunnelLines : TunnelLine(line) /\ UNCHANGED notTunnel
    \/ TunnelEnds /\ UNCHANGED notTunnel

----------------------------------------------------------------------------
(* protocol.rs of the relay and of the agent: the two ControlMessage enums *)
(* and their serde representation.                                         *)

\* relay-server ControlMessage: each variant with the names of its fields.
RelayControlMessage ==
    [ Register |-> {"client_id"},
      Registered |-> {"code"},
      BrowserConnected |-> {"browser_id"},
      BrowserDisconnected |-> {"browser_id"},
      Auth |-> {"session_code"},
      AuthSuccess |-> {},
      AuthFailed |-> {"reason"},
      CloseSession |-> {"session_id"},
      CreateSession |-> {},
      SessionList |-> {"sessions"},
      SessionConnected |-> {"session_id", "name"},
      SessionDisconnected |-> {"session_id"},
      Error |-> {"message"} ]

\* mac-client ControlMessage.
AgentControlMessage ==
    [ Register |-> {"client_id"},
      Registered |-> {"code"},
      BrowserConnected |-> {"browser_id"},
      BrowserDisconnected |-> {"browser_id"},
      Auth |-> {"session_code"},
      AuthSuccess |-> {},
      AuthFailed |-> {"reason"},
      Error |-> {"message"} ]

\* The enum a program compiles in, and the other program.
ControlMessage(side) ==
    IF side = "relay" THEN RelayControlMessage ELSE AgentControlMessage
Peer(side) == IF side = "relay" THEN "agent" ELSE "relay"

\* serde rename_all = "snake_case" on the names of the variants.
snake_case ==
    [ Register |-> "register",
      Registered |-> "registered",
      BrowserConnected |-> "browser_connected",
      BrowserDisconnected |-> "browser_disconnected",
      Auth |-> "auth",
      AuthSuccess |-> "auth_success",
      AuthFailed |-> "auth_failed",
      CloseSession |-> "close_session",
      CreateSession |-> "create_session",
      SessionList |-> "session_list",
      SessionConnected |-> "session_connected",
      SessionDisconnected |-> "session_disconnected",
      Error |-> "error" ]

\* The values of a String field in the model, and of Vec<SessionInfo>.
Strings == {"a", "b", "c"}
SessionInfo(id, name) == [id |-> id, name |-> name]
SessionLists == { << >>, << SessionInfo("a", "b") >> }
FieldValues(name) == IF name = "sessions" THEN SessionLists ELSE Strings

\* The values of an enum.
Messages(schema) ==
    UNION { { [variant |-> v, fields |-> f] :
                 f \in [schema[v] -> UNION { FieldValues(n) : n \in schema[v] }] }
            : v \in DOMAIN schema }

\* serde_json::to_string on a ControlMessage (tag = "type"): the object
\* holds the tag under `type` and the fields of the variant.
to_string(msg) == [type |-> snake_case[msg.variant], fields |-> msg.fields]

NoMessage == [variant |-> "#none", fields |-> << >>]
NoJsonText == [type |-> "#none", fields |-> << >>]
Ok(msg) == [ok |-> TRUE, msg |-> msg]
Err == [ok |-> FALSE, msg |-> NoMessage]

\* serde_json::from_str::<ControlMessage> with the enum `schema`: the
\* variant whose tag is the object's `type`, with its fields taken from the
\* object; an unknown tag or a missing field is an error.
from_str(schema, json) ==
    LET vs == { v \in DOMAIN schema : snake_case[v] = json.type }
    IN  IF vs = {} THEN Err
        ELSE LET v == CHOOSE x \in vs : TRUE
             IN  IF ~(schema[v] \subseteq DOMAIN json.fields) THEN Err
                 ELSE Ok([variant |-> v,
                          fields |-> [n \in schema[v] |-> json.fields[n]]])

SchemaInit ==
    /\ sc_pc = "idle"
    /\ sc_from = "none"
    /\ sc_msg = NoMessage
    /\ sc_json = NoJsonText
    /\ sc_result = Err

\* A program serializes a value of its enum and writes it as a Text frame.
SchemaSend(side, msg) ==
    /\ sc_pc = "idle"
    /\ sc_pc' = "sent"
    /\ sc_from' = side
    /\ sc_msg' = msg
    /\ sc_json' = to_string(msg)
    /\ UNCHANGED sc_result

\* The other program reads the Text frame and deserializes it.
SchemaRecv ==
    /\ sc_pc = "sent"
    /\ sc_pc' = "received"
    /\ sc_result' = from_str(ControlMessage(Peer(sc_from)), sc_json)
    /\ UNCHANGED <<sc_from, sc_msg, sc_json>>

SchemaNext ==
    \/ \E msg \in Messages(RelayControlMessage) :
          SchemaSend("relay", msg) /\ UNCHANGED notSchema
    \/ \E msg \in Messages(AgentControlMessage) :
          SchemaSend("agent", msg) /\ UNCHANGED notSchema
    \/ SchemaRecv /\ UNCHANGED notSchema

----------------------------------------------------------------------------
EnvInit == nframes = 0

\* An environment client sends one more frame.
ClientSends ==
    /\ nframes < MaxFrames
    /\ nframes' = nframes + 1

Init == RelayInit /\ EnvInit /\ BackoffInit /\ CodecInit /\ TmuxInit /\ PipeInit /\ TunnelInit
           /\ SchemaInit /\ UiInit

\* The frames an environment client sends after its first one; the n-th
\* frame read carries n.
AgentData == { << 1, 115, nframes + 1 >> }
AgentTexts == { SessionListText, Ctl("registered", << >>), Malformed }
BrowserFrames ==
    { Tagged(DataFrame(nframes + 1), << 0, nframes + 1 >>) }
        \cup { TextFrame(t) : t \in BrowserTexts }

RelayNext(S, K) ==
    \E s \in S :
        \/ Upgrade(s) /\ UNCHANGED <<envVars, agentVars>>
        \/ FirstNone(s) /\ UNCHANGED <<envVars, agentVars>>
        \/ \E f \in FirstFrames(s) : FirstRejected(s, f) /\ UNCHANGED <<envVars, agentVars>>
        \/ \E f \in FirstFrames(s) : FirstRegister(s, f) /\ UNCHANGED <<envVars, agentVars>>
        \/ \E f \in FirstFrames(s) : FirstAuth(s, f) /\ UNCHANGED <<envVars, agentVars>>
        \/ \E cand \in K : RegisterPass(s, cand) /\ UNCHANGED <<envVars, agentVars>>
        \/ RegisterInsert(s) /\ UNCHANGED <<envVars, agentVars>>
        \/ RegisterReplyOk(s) /\ UNCHANGED <<envVars, agentVars>>
        \/ RegisterReplyErr(s) /\ UNCHANGED <<envVars, agentVars>>
        \/ \E d \in AgentData : MacRecvBinary(s, d) /\ ClientSends /\ UNCHANGED agentVars
        \/ \E t \in AgentTexts : MacRecvText(s, t) /\ ClientSends /\ UNCHANGED agentVars
        \/ \E b \in Socks : BroadcastStep(s, b) /\ UNCHANGED <<envVars, agentVars>>
        \/ MacRecvClose(s) /\ UNCHANGED <<envVars, agentVars>>
        \/ MacCleanup(s) /\ UNCHANGED <<envVars, agentVars>>
        \/ WriterSend(s) /\ UNCHANGED <<envVars, agentVars>>
        \/ WriterSocketErr(s) /\ UNCHANGED <<envVars, agentVars>>
        \/ WriterEnd(s) /\ UNCHANGED <<envVars, agentVars>>
        \/ BrowserValidateFail(s) /\ UNCHANGED <<envVars, agentVars>>
        \/ BrowserValidateOk(s) /\ UNCHANGED <<envVars, agentVars>>
        \/ BrowserAdd(s) /\ UNCHANGED <<att, envVars, agentVars>>
        \/ BrowserReplyOk(s) /\ UNCHANGED <<envVars, agentVars>>
        \/ BrowserReplyErr(s) /\ UNCHANGED <<envVars, agentVars>>
        \/ BrowserNotify(s) /\ UNCHANGED <<envVars, agentVars>>
        \/ \E f \in BrowserFrames : BrowserRecvForward(s, f) /\ ClientSends /\ UNCHANGED agentVars
        \/ \E f \in BrowserFrames : BrowserRecvIgnore(s, f) /\ ClientSends /\ UNCHANGED agentVars
        \/ BrowserClose(s) /\ UNCHANGED <<envVars, agentVars>>

Next == RelayNext(SpecSocks, {Candidate(1)})

Spec == Init /\ [][Next]_vars

NextMint ==
    \/ RelayNext(MintSocks, Candidates)
    \/ \E s \in MintSocks, cand \in Candidates :
          RegisterCollide(s, cand) /\ UNCHANGED <<envVars, agentVars>>

SpecMint == Init /\ [][NextMint]_vars

\* The reconnect loop of the relay client on its own.
SpecBackoff == Init /\ [][BackoffNext]_vars

\* The frame codec applied to the inputs of the model.
SpecCodec == Init /\ [][CodecNext]_vars

\* The tmux session manager with its reader threads.
SpecTmux == Init /\ [][TmuxNext]_vars

\* The session manager under Write and Resize commands.
SpecLock == Init /\ [][NextLock]_vars

\* The session watcher, the tmux server and the readers.
SpecWatch == Init /\ [][NextWatch]_vars

\* The watcher racing with the command processor.
SpecRace == Init /\ [][NextRace]_vars

\* The steps the manager takes by itself: a kill that was started goes on.
\* Commands, PTY output and EOF come from outside.
TmuxProgress == \E ok \in BOOLEAN : TmuxKillFinish(ok) /\ UNCHANGED notTmux

\* The same, where the manager's task is scheduled.
SpecTmuxFair == SpecTmux /\ WF_vars(TmuxProgress)

\* The tunnel supervisor reading cloudflared's stderr.
SpecTunnel == Init /\ [][TunnelNext]_vars

\* One control message serialized by one program and read by the other.
SpecSchema == Init /\ [][SchemaNext]_vars

\* The frames a browser submits once attached: the n-th submitted frame
\* carries <<browser, n>> as its history tag.
PipeBrowserFrames(b) ==
    { Tagged(f, << b, nframes + 1 >>) :
        f \in { DataFrame(nframes + 1),
                TextFrame(Ctl("close_session", << "s" >>)),
                TextFrame(Ctl("create_session", << >>)) } }

\* The fan-out of the relay: one agent that registers, sends binary frames
\* and leaves, and two browsers that attach, listen and leave.
NextFan ==
    \/ Upgrade(AgentSock) /\ UNCHANGED <<envVars, agentVars>>
    \/ FirstRegister(AgentSock, TextFrame(RegisterText)) /\ UNCHANGED <<envVars, agentVars>>
    \/ RegisterPass(AgentSock, Candidate(1)) /\ UNCHANGED <<envVars, agentVars>>
    \/ RegisterInsert(AgentSock) /\ UNCHANGED <<envVars, agentVars>>
    \/ RegisterReplyOk(AgentSock) /\ UNCHANGED <<envVars, agentVars>>
    \/ \E d \in AgentData :
          MacRecvBinary(AgentSock, d) /\ ClientSends /\ UNCHANGED agentVars
    \/ \E b \in BrowserSocks :
          BroadcastStep(AgentSock, b) /\ UNCHANGED <<envVars, agentVars>>
    \/ MacRecvClose(AgentSock) /\ UNCHANGED <<envVars, agentVars>>
    \/ MacCleanup(AgentSock) /\ UNCHANGED <<envVars, agentVars>>
    \/ \E b \in BrowserSocks : WriterSend(b) /\ UNCHANGED <<envVars, agentVars>>
    \/ \E b \in BrowserSocks : Upgrade(b) /\ UNCHANGED <<envVars, agentVars>>
    \/ \E b \in BrowserSocks :
          FirstAuth(b, TextFrame(AuthText(Candidate(1)))) /\ UNCHANGED <<envVars, agentVars>>
    \/ \E b \in BrowserSocks : BrowserValidateFail(b) /\ UNCHANGED <<envVars, agentVars>>
    \/ \E b \in BrowserSocks : BrowserValidateOk(b) /\ UNCHANGED <<envVars, agentVars>>
    \/ \E b \in BrowserSocks :
          BrowserAdd(b) /\ RecordAttach(b) /\ UNCHANGED <<envVars, agentVars>>
    \/ \E b \in BrowserSocks : BrowserReplyOk(b) /\ UNCHANGED <<envVars, agentVars>>
    \/ \E b \in BrowserSocks : BrowserNotify(b) /\ UNCHANGED <<envVars, agentVars>>
    \/ \E b \in BrowserSocks : BrowserClose(b) /\ UNCHANGED <<envVars, agentVars>>

SpecFan == Init /\ [][NextFan]_vars

\* What a relay step leaves alone in the agent.
notRelay == <<envVars, agentVars>>
notRelayPipe == <<envVars, backoffVars, codecVars, tmuxVars, tunnelVars, schemaVars, uiVars>>
notAgentPipe == <<relayVars, envVars, backoffVars, codecVars, tmuxVars, tunnelVars, schemaVars, uiVars>>

\* The agent process wired to the relay through socket AgentSock, browsers
\* as environment clients: the steps of every such specification. The
\* relay is reachable and the connection of the agent stays up.
PipeCore ==
    \/ ConnectOk /\ Upgrade(AgentSock) /\ ClientConnect
          /\ UNCHANGED <<envVars, codecVars, tmuxVars, tunnelVars, schemaVars, uiVars>>
    \/ FirstRegister(AgentSock, Head(ag_up)) /\ AgentFrameRead /\ UNCHANGED notRelayPipe
    \/ RegisterPass(AgentSock, Candidate(1)) /\ UNCHANGED notRelay
    \/ RegisterInsert(AgentSock) /\ UNCHANGED notRelay
    \/ RegisterReplyOk(AgentSock) /\ UNCHANGED notRelay
    \/ /\ ag_up # << >> /\ Head(ag_up).k = "text"
       /\ MacRecvText(AgentSock, Head(ag_up).text) /\ AgentFrameRead
       /\ UNCHANGED notRelayPipe
    \/ \E b \in BrowserSocks : BroadcastStep(AgentSock, b) /\ UNCHANGED notRelay
    \/ \E s \in SpecSocks : WriterSend(s) /\ UNCHANGED notRelay
    \/ \E b \in BrowserSocks : Upgrade(b) /\ UNCHANGED notRelay
    \/ \E b \in BrowserSocks :
          FirstAuth(b, TextFrame(AuthText(LowerAll(Candidate(1))))) /\ UNCHANGED notRelay
    \/ \E b \in BrowserSocks : BrowserValidateFail(b) /\ UNCHANGED notRelay
    \/ \E b \in BrowserSocks : BrowserValidateOk(b) /\ UNCHANGED notRelay
    \/ \E b \in BrowserSocks : BrowserAdd(b) /\ UNCHANGED <<att, notRelay>>
    \/ \E b \in BrowserSocks : BrowserReplyOk(b) /\ UNCHANGED notRelay
    \/ \E b \in BrowserSocks : BrowserNotify(b) /\ UNCHANGED notRelay
    \/ \E b \in BrowserSocks : BrowserClose(b) /\ UNCHANGED notRelay
    \/ ClientRecv /\ UNCHANGED notAgentPipe
    \/ \E ok \in BOOLEAN : ClientSend(ok) /\ UNCHANGED notAgentPipe
    \/ ForwardRelayEvent /\ UNCHANGED notAgentPipe

\* The steps of the two programs in the pipeline when every write of the
\* agent succeeds, without forward_relay_events.
ListCore ==
    \/ ConnectOk /\ Upgrade(AgentSock) /\ ClientConnect
          /\ UNCHANGED <<envVars, codecVars, tmuxVars, tunnelVars, schemaVars, uiVars>>
    \/ FirstRegister(AgentSock, Head(ag_up)) /\ AgentFrameRead /\ UNCHANGED notRelayPipe
    \/ RegisterPass(AgentSock, Candidate(1)) /\ UNCHANGED notRelay
    \/ RegisterInsert(AgentSock) /\ UNCHANGED notRelay
    \/ RegisterReplyOk(AgentSock) /\ UNCHANGED notRelay
    \/ /\ ag_up # << >> /\ Head(ag_up).k = "text"
       /\ MacRecvText(AgentSock, Head(ag_up).text) /\ AgentFrameRead
       /\ UNCHANGED notRelayPipe
    \/ \E b \in BrowserSocks : BroadcastStep(AgentSock, b) /\ UNCHANGED notRelay
    \/ \E s \in SpecSocks : WriterSend(s) /\ UNCHANGED notRelay
    \/ \E b \in BrowserSocks : BrowserValidateFail(b) /\ UNCHANGED notRelay
    \/ \E b \in BrowserSocks : BrowserValidateOk(b) /\ UNCHANGED notRelay
    \/ \E b \in BrowserSocks : BrowserAdd(b) /\ UNCHANGED <<att, notRelay>>
    \/ \E b \in BrowserSocks : BrowserReplyOk(b) /\ UNCHANGED notRelay
    \/ \E b \in BrowserSocks : BrowserNotify(b) /\ UNCHANGED notRelay
    \/ ClientRecv /\ UNCHANGED notAgentPipe
    \/ ClientSend(TRUE) /\ UNCHANGED notAgentPipe

\* The same with forward_relay_events, the ui channel left aside.
ListProgress ==
    \/ ListCore
    \/ ForwardRelayEvent /\ UNCHANGED notAgentPipe

\* The steps of the browsers: one connects, sends its auth, goes away. A
\* socket is used once, so that a browser id names one connection.
ListEnv ==
    \/ \E b \in BrowserSocks : pc[b] = "closed" /\ Upgrade(b) /\ UNCHANGED notRelay
    \/ \E b \in BrowserSocks :
          FirstAuth(b, TextFrame(AuthText(LowerAll(Candidate(1))))) /\ UNCHANGED notRelay
    \/ \E b \in BrowserSocks : BrowserClose(b) /\ UNCHANGED notRelay

NextList == ListProgress \/ ListEnv

\* Browsers authenticate while the agent stays connected and its writes
\* succeed; every task of the two programs that can take a step is
\* scheduled.
SpecList == Init /\ [][NextList]_vars /\ WF_vars(ListProgress)

\* The same pipeline with the ui channel and the UI thread.
NextCount ==
    \/ ListCore
    \/ ListEnv
    \/ ForwardRelayEvent /\ UiSendRelay /\ UNCHANGED notAgentPipeUi
    \/ handle_ui_events /\ UNCHANGED notUi

SpecCount == Init /\ [][NextCount]_vars

\* The text frames the relay writes to the agent's socket in SpecClientText:
\* those the relay's code sends, a control message the agent does not
\* handle, an unknown tag and a text that is not JSON.
RelayTexts ==
    { Ctl("registered", Candidate(1)), Ctl("browser_connected", BrowserId(3)),
      Ctl("create_session", << >>), Ctl("auth_success", << >>),
      Ctl("bogus", << >>), Malformed }

MaxConnects == 2

\* The relay client against a relay that writes text frames to it.
NextClientText ==
    \/ /\ Len(rc_slept) < MaxConnects
       /\ ConnectOk /\ ClientConnect
       /\ out' = [out EXCEPT ![AgentSock] = << >>]
       /\ UNCHANGED <<sessions, pc, code, chan, rx, bc_todo, bc_msg, tries,
                      upgrades, first, joined, att>>
       /\ UNCHANGED <<envVars, codecVars, tmuxVars, tunnelVars, schemaVars, uiVars>>
    \/ \E t \in RelayTexts :
          /\ rc_pc = "connected"
          /\ Len(out[AgentSock]) < MaxFrames
          /\ out' = [out EXCEPT ![AgentSock] = Append(@, TextFrame(t))]
          /\ UNCHANGED <<sessions, pc, code, chan, rx, bc_todo, bc_msg, tries,
                         upgrades, first, joined, att>>
          /\ UNCHANGED <<envVars, agentVars>>
    \/ ClientRecv /\ UNCHANGED notAgentPipe
    \/ ClientRecvErr /\ UNCHANGED <<relayVars, envVars, codecVars, tmuxVars,
                                    tunnelVars, schemaVars, uiVars>>
    \/ BackoffSleep /\ UNCHANGED notBackoff

SpecClientText == Init /\ [][NextClientText]_vars

MaxReconnects == 2

\* The steps of the agent and of the relay when the user asks for a new
\* code: the relay is reachable and no browser is connected.
ReconnectProgress ==
    \/ ConnectOk /\ Upgrade(AgentSock) /\ ClientConnect
          /\ UNCHANGED <<envVars, codecVars, tmuxVars, tunnelVars, schemaVars, uiVars>>
    \/ FirstRegister(AgentSock, Head(ag_up)) /\ AgentFrameRead /\ UNCHANGED notRelayPipe
    \/ RegisterPass(AgentSock, Candidate(1)) /\ UNCHANGED notRelay
    \/ RegisterInsert(AgentSock) /\ UNCHANGED notRelay
    \/ RegisterReplyOk(AgentSock) /\ UNCHANGED notRelay
    \/ /\ ag_up # << >> /\ Head(ag_up).k = "close"
       /\ MacRecvClose(AgentSock) /\ AgentFrameRead
       /\ UNCHANGED notRelayPipe
    \/ MacCleanup(AgentSock) /\ UNCHANGED notRelay
    \/ ClientRecv /\ UNCHANGED notAgentPipe
    \/ ClientReconnect /\ UNCHANGED <<relayVars, envVars, codecVars, tmuxVars,
                                      tunnelVars, schemaVars, uiVars>>
    \/ BackoffSleep /\ ClientDisconnected
          /\ UNCHANGED <<relayVars, envVars, codecVars, tmuxVars, tunnelVars, schemaVars, uiVars>>

NextReconnect ==
    \/ ReconnectProgress
    \/ /\ Len(rc_slept) + Len(relay_cmds) + (IF rc_pc = "sleep" THEN 1 ELSE 0)
             < MaxReconnects
       /\ UserReconnect /\ UNCHANGED notAgentPipe

\* Every task of the two programs that can take a step is scheduled.
SpecReconnect == Init /\ [][NextReconnect]_vars /\ WF_vars(ReconnectProgress)

\* Upstream: browsers type, no tmux session exists.
NextUp ==
    \/ PipeCore
    \/ \E b \in BrowserSocks : \E f \in PipeBrowserFrames(b) :
          BrowserRecvForward(b, f) /\ ClientSends /\ UNCHANGED agentVars

SpecUp == Init /\ [][NextUp]_vars

\* Downstream: one tmux session at a time is attached, with an empty pane
\* (no scrollback), and produces output; browsers only listen.
NextDown ==
    \/ PipeCore
    \/ ForwardPtyEvent /\ UNCHANGED notAgentPipe
    \/ /\ ag_up # << >> /\ Head(ag_up).k = "binary"
       /\ MacRecvBinary(AgentSock, Head(ag_up).data) /\ AgentFrameRead
       /\ UNCHANGED notRelayPipe
    \/ /\ DOMAIN tm_sessions = {}
       /\ AttachWith("main", FALSE) /\ UNCHANGED notTmux
    \/ \E u \in SessionUuids : TmuxRead(u) /\ UNCHANGED notTmux

SpecDown == Init /\ [][NextDown]_vars

\* Shells come and go: sessions are attached, killed by id and detached,
\* their readers reach EOF, and the UI thread counts what the pty_event
\* task tells it.
NextShell ==
    \/ \E name \in SessionNames : TmuxAttach(name) /\ UNCHANGED notTmux
    \/ \E u \in SessionUuids : TmuxKillLookup(u) /\ UNCHANGED notTmux
    \/ \E ok \in BOOLEAN : TmuxKillFinish(ok) /\ UNCHANGED notTmux
    \/ \E u \in SessionUuids : TmuxDetach(u) /\ UNCHANGED notTmux
    \/ \E u \in SessionUuids : TmuxReaderExit(u) /\ UNCHANGED notTmux
    \/ ForwardPtyEvent /\ UiSendPty /\ UNCHANGED notAgentPipeUi
    \/ handle_ui_events /\ UNCHANGED notUi

SpecShell == Init /\ [][NextShell]_vars

MaxBrowsersAnnounced == 2

\* The two tasks of the agent that write to relay_cmd_tx, step by step:
\* sessions are attached while the relay announces browsers; the commands
\* stay in relay_cmds in the order in which they were sent.
NextOrder ==
    \/ /\ rc_slept = << >>
       /\ ConnectOk /\ ClientConnect
       /\ out' = [out EXCEPT ![AgentSock] = << >>]
       /\ UNCHANGED <<sessions, pc, code, chan, rx, bc_todo, bc_msg, tries,
                      upgrades, first, joined, att>>
       /\ UNCHANGED <<envVars, codecVars, tmuxVars, tunnelVars, schemaVars, uiVars>>
    \/ \E b \in BrowserSocks :
          /\ rc_pc = "connected"
          /\ Len(out[AgentSock]) < MaxBrowsersAnnounced
          /\ out' = [out EXCEPT ![AgentSock] =
                        Append(@, TextFrame(Ctl("browser_connected", BrowserId(b))))]
          /\ UNCHANGED <<sessions, pc, code, chan, rx, bc_todo, bc_msg, tries,
                         upgrades, first, joined, att>>
          /\ UNCHANGED <<envVars, agentVars>>
    \/ ClientRecv /\ UNCHANGED notAgentPipe
    \/ RelayListClone /\ UNCHANGED notAgentPipe
    \/ RelayListSend /\ UNCHANGED notAgentPipe
    \/ RelayOtherEvent /\ UNCHANGED notAgentPipe
    \/ \E name \in SessionNames, scrollback \in BOOLEAN :
          AttachWith(name, scrollback) /\ UNCHANGED notTmux
    \/ PtyListUpdate /\ UNCHANGED notAgentPipe
    \/ PtyNotifyRelay /\ UNCHANGED notAgentPipe

SpecOrder == Init /\ [][NextOrder]_vars

----------------------------------------------------------------------------
(* Properties of the relay broker.                                         *)

\* The handler of agent socket a has inserted its session and not removed it.
Registered(a) == pc[a] \in {"reg_reply", "mac_loop", "mac_bye"}

\* Socket s is in the sessions map, as an agent or as a browser.
InSessions(s) ==
    \E c \in DOMAIN sessions : sessions[c].mac_tx = s \/ s \in sessions[c].browsers

IsErrorFrame(f) == f.k = "text" /\ f.text.type = "error"
IsAuth(f) == f.k = "text" /\ f.text.type = "auth"
AuthSuccess == TextFrame(Ctl("auth_success", << >>))

\* C1: agents that are registered at the same time hold pairwise distinct
\* codes, whatever the interleaving of their register_mac_client calls.
C1_CodesUnique ==
    \A a1, a2 \in AgentSocks :
        (a1 # a2 /\ Registered(a1) /\ Registered(a2)) => code[a1] # code[a2]

\* The "Session disconnected" errors enqueued for or written to browser b.
DisconnectCount(b) ==
    Cardinality({ i \in 1..Len(out[b]) : out[b][i] = TextFrame(DisconnectError) })
        + Cardinality({ i \in 1..Len(chan[b]) : chan[b][i] = TextFrame(DisconnectError) })

\* Agent a got its `registered` reply, so its handler ended by its reader.
ReaderEnded(a) ==
    /\ pc[a] = "done"
    /\ out[a] # << >>
    /\ out[a][1].k = "text" /\ out[a][1].text.type = "registered"

\* C2: once an agent's reader has ended and its session is removed, every
\* browser that add_browser put into that session and whose writer is still
\* running has exactly one "Session disconnected" error, enqueued or written.
C2_ExactlyOneDisconnect ==
    \A a \in AgentSocks, b \in BrowserSocks :
        ( /\ ReaderEnded(a)
          /\ joined[b] = a
          /\ pc[b] \in {"b_reply", "b_notify", "b_loop"}
          /\ rx[b] \in {"held", "task"} )
        => DisconnectCount(b) = 1

\* A first frame that is neither a register nor an auth message.
Rejectable(f) == f.k # "text" \/ f.text.type \notin {"register", "auth"}

\* C3: a socket whose first frame is a binary frame, a close frame, an
\* unparsable text or a control message other than register and auth is
\* sent exactly one error frame and closed, and it creates no session, no
\* channel and no browser attachment.
C3_FirstMessageContract ==
    \A s \in Socks :
        (first[s] # NoFrame /\ Rejectable(first[s])) =>
            /\ pc[s] = "done"
            /\ Len(out[s]) = 1 /\ IsErrorFrame(out[s][1])
            /\ ~InSessions(s)
            /\ rx[s] = "none" /\ joined[s] = 0 /\ code[s] = NoCode

C3_Witness ==
    \E s \in AgentSocks, b \in BrowserSocks :
        /\ first[s] = BinaryFrame(<< 0 >>)
        /\ out[s] = << ErrorFrame("First message must be JSON") >>
        /\ first[b] = TextFrame(Ctl("auth_success", << >>))
        /\ out[b] = << ErrorFrame("First message must be Register or Auth") >>
        /\ pc[s] = "done" /\ pc[b] = "done"

\* C4: a browser that types a code in any letter case is handled as if it
\* had typed the code as minted: the handler looks up that code, validation
\* passes while the code is in the map, the browser is attached to that
\* code's session and to no other, and auth_success is its first frame.
C4_CaseInsensitiveAuth ==
    \A b \in BrowserSocks, C \in Candidates :
        (IsAuth(first[b]) /\ first[b].text.arg \in CaseVariants(C)) =>
            /\ code[b] = C
            /\ (pc[b] = "b_validate" /\ C \in DOMAIN sessions)
                   => validate_session_code(sessions, code[b])
            /\ \A c \in DOMAIN sessions : b \in sessions[c].browsers => c = C
            /\ pc[b] \in {"b_notify", "b_loop"} => out[b][1] = AuthSuccess

C4_Witness ==
    \E b \in BrowserSocks :
        /\ IsAuth(first[b])
        /\ first[b].text.arg = LowerFirst(Candidate(1))
        /\ first[b].text.arg # Candidate(1)
        /\ b \in BrowsersOf(sessions, Candidate(1))
        /\ pc[b] = "b_loop"
        /\ out[b][1] = AuthSuccess

\* C10: a broadcast never waits for a browser: while browsers are left to
\* visit, the send to one of them completes at once.
C10_BroadcastNeverBlocked ==
    \A a \in AgentSocks :
        bc_todo[a] # {} => \E b \in bc_todo[a] : SendReady(b)

----------------------------------------------------------------------------
(* Properties of the reconnect loop.                                       *)

----------------------------------------------------------------------------
(* Properties of the frame codec.                                          *)

\* The frame is shorter than 1+L, L its first byte (or has no first byte).
ShorterThanHeader(frame) == frame = << >> \/ Len(frame) < 1 + frame[1]

\* Event ev carries session id `id` and payload p: as terminal data with
\* the same bytes, or as the in-band control message that p spells.
Carries(ev, id, p) ==
    /\ ev.session_id = id
    /\ \/ ev.kind = "TerminalData" /\ ev.data = p
       \/ ev.kind \in {"Resize", "CloseSession"} /\ serde_json_from_str(p).ok

\* C5: decoding the frame send_terminal_data built from a session id of
\* 0..=255 bytes and any payload yields one event with the same id and the
\* same payload; a byte string shorter than 1+L yields no event.
C5_FrameRoundTrip ==
    cd_pc = "received" =>
        /\ (~cd_raw /\ Len(as_bytes(cd_id)) <= U8_MAX) =>
               /\ Len(cd_events) = 1
               /\ Carries(cd_events[1], cd_id, cd_payload)
        /\ ShorterThanHeader(cd_frame) => cd_events = << >>

----------------------------------------------------------------------------
(* Properties of the tmux session manager.                                 *)

\* The Detached events sent for a session id.
DetachedCount(session_id) ==
    Cardinality({ i \in 1..Len(tm_events) : tm_events[i] = Detached(session_id) })

\* C9: whatever the sequence of KillSessionById, Detach and Shutdown
\* commands and of PTY EOFs and read errors, no session id is sent more
\* than one Detached event: a kill or a detach followed by the reader's
\* EOF sends no second one, and neither does a detach or a kill after it.
C9_OneDetachedPerSession ==
    \A u \in SessionUuids : DetachedCount(u) <= 1

----------------------------------------------------------------------------
(* Properties of the path between the browsers and the PTYs.               *)

\* The history tags of a queue of frames, events or commands.
TagsOf(q) == [i \in 1..Len(q) |-> q[i].tag]

\* Everything a browser submitted that is on its way to the PTY manager,
\* nearest to the PTY first: the PTY commands, the events waiting for
\* forward_relay_events, the frames written to the agent's socket the
\* client has not read, and the frames in the agent's channel at the relay.
Upstream ==
    TagsOf(pty_cmds) \o TagsOf(relay_events)
      \o TagsOf(SubSeq(out[AgentSock], ag_rd + 1, Len(out[AgentSock])))
      \o TagsOf(chan[AgentSock])

\* C7: the frames one browser submits reach the agent's channel, the
\* agent's socket and the PTY command queue in the order the browser
\* submitted them: at every stage an earlier frame of the same browser is
\* nearer to the PTY than a later one.
C7_BrowserFramesInOrder ==
    \A b \in BrowserSocks :
        \A i, j \in 1..Len(Upstream) :
            (i < j /\ Upstream[i][1] = b /\ Upstream[j][1] = b)
                => Upstream[i][2] < Upstream[j][2]

\* Two frames of one browser have both become PTY commands.
C7_Witness ==
    \E b \in BrowserSocks :
        /\ Len(pty_cmds) = 2
        /\ pty_cmds[1].tag = << b, 1 >>
        /\ pty_cmds[2].tag = << b, 2 >>

\* The number of the PTY chunk a frame carries for session u, 0 if the
\* frame is not terminal data of that session.
ChunkOf(f, u) ==
    LET es == IF f.k = "binary" THEN handle_binary_message(f.data) ELSE << >>
    IN IF /\ Len(es) = 1
          /\ es[1].kind = "TerminalData"
          /\ es[1].session_id = uuid_str(u)
          /\ Len(es[1].data) = 1
       THEN es[1].data[1]
       ELSE 0

\* The chunks read from the PTY of session u among the frames written to
\* browser b's socket.
Received(b, u) ==
    LET fs == SelectSeq(out[b], LAMBDA f : ChunkOf(f, u) \in 1..MaxChunks)
    IN [i \in 1..Len(fs) |-> ChunkOf(fs[i], u)]

----------------------------------------------------------------------------
(* Properties of the relay: forwarding to the agent.                       *)

\* C11: a browser's reader is never held by a forward to the agent: in its
\* loop, send_to_mac_client / send_text_to_mac_client completes at once,
\* whether the session is gone, the agent's writer has stopped, or the
\* writer is stalled with the agent's channel at any fill level.
C11_ForwardNeverBlocked ==
    \A s \in BrowserSocks : pc[s] = "b_loop" => MacSendReady(code[s])

\* C12: register_mac_client gives up after a bounded number of colliding
\* candidates: a handler whose candidates collided MaxTries times is no
\* longer drawing candidates (it has reported a capacity error instead).
C12_MintGivesUp ==
    \A s \in Socks : tries[s] >= MaxTries => pc[s] # "reg_check"

\* The sessions whose browsers map has socket s as a key.
SessionsOf(s) == { c \in DOMAIN sessions : s \in sessions[c].browsers }

\* C13: a browser that was sent auth_success, whose socket is open and
\* which was not sent the disconnect error of a session teardown, is a key
\* of the browsers map of exactly one session, the one of its code.
C13_AttachedToOneSession ==
    \A s \in BrowserSocks :
        (pc[s] \in {"b_notify", "b_loop"} /\ DisconnectCount(s) = 0)
            => SessionsOf(s) = {code[s]}

\* The agents that have registered and whose handler has not finished.
LiveAgents == { a \in Socks : Registered(a) }

\* C14: the sessions map holds exactly one entry per agent that has
\* registered and whose handler has not finished, the entry of an agent is
\* under its code and names it, and with no such agent the map is empty.
C14_OneEntryPerAgent ==
    /\ Cardinality(DOMAIN sessions) = Cardinality(LiveAgents)
    /\ \A a \in LiveAgents :
          validate_session_code(sessions, code[a]) /\ sessions[code[a]].mac_tx = a

----------------------------------------------------------------------------
(* Properties of the code mint.                                            *)

\* The 31 characters ABCDEFGHJKMNPQRSTUVWXYZ23456789.
CodeChars ==
    { "A", "B", "C", "D", "E", "F", "G", "H", "J", "K", "M", "N", "P", "Q",
      "R", "S", "T", "U", "V", "W", "X", "Y", "Z",
      "2", "3", "4", "5", "6", "7", "8", "9" }
Confusable == { "0", "O", "1", "I", "L" }

WellFormedCode(c) ==
    /\ Len(c) = 6
    /\ \A i \in 1..Len(c) : c[i] \in CodeChars /\ c[i] \notin Confusable

\* C15: every code generate_session_code returned to a registering agent,
\* and every key of the sessions map, has length 6 and only characters of
\* ABCDEFGHJKMNPQRSTUVWXYZ23456789, hence none of 0, O, 1, I, L; so has
\* every character the mint can draw.
C15_CodesWellFormed ==
    /\ \A i \in 1..Len(CODE_ALPHABET) :
          CODE_ALPHABET[i] \in CodeChars /\ CODE_ALPHABET[i] \notin Confusable
    /\ \A c \in DOMAIN sessions : WellFormedCode(c)
    /\ \A s \in Socks :
          pc[s] \in {"reg_insert", "reg_reply", "mac_loop", "mac_bye"}
              => WellFormedCode(code[s])

\* Two minted codes are keys of the map.
C15_Witness ==
    Cardinality(DOMAIN sessions) = 2

----------------------------------------------------------------------------
(* Properties of the session announcements.                                *)

SessionConnectedFrame(u) == TextFrame(Ctl("session_connected", uuid_str(u)))

\* C16: on a browser connection, every binary output frame of a session
\* is preceded on that connection by the session_connected message of
\* that session.
C16_ConnectedPrecedesOutput ==
    \A b \in BrowserSocks : \A u \in SessionUuids :
        \A i \in 1..Len(out[b]) :
            ChunkOf(out[b][i], u) # 0
                => \E j \in 1..(i - 1) : out[b][j] = SessionConnectedFrame(u)

----------------------------------------------------------------------------
(* Properties of the tmux manager's event order.                           *)

\* The Attached and Output events of session u, in channel order.
SessionEvents(u) ==
    SelectSeq(tm_events,
              LAMBDA e : e.session_id = u /\ e.ev \in {"Attached", "Output"})

IsScrollback(e) == e.ev = "Output" /\ e.data = SCROLLBACK

\* C17: the events of an attached session are, in this order, one
\* Attached, at most one Output with the scrollback, and the Outputs of
\* the live reads: no Output of the session precedes its Attached and no
\* live Output precedes the scrollback.
C17_AttachedScrollbackLive ==
    \A u \in SessionUuids :
        LET es == SessionEvents(u) IN
          /\ es # << >> => es[1].ev = "Attached"
          /\ \A i \in 2..Len(es) : es[i].ev = "Output"
          /\ \A i \in 1..Len(es) : IsScrollback(es[i]) => i = 2

\* A session has sent Attached, its scrollback and a live chunk.
C17_Witness ==
    \E u \in SessionUuids :
        LET es == SessionEvents(u) IN
          /\ Len(es) >= 3
          /\ IsScrollback(es[2])
          /\ ~IsScrollback(es[3])

----------------------------------------------------------------------------
(* Properties of the relay's fan-out to the browsers.                      *)

\* The n-th frame the relay read, as a binary frame of the agent.
AgentFrame(n) == BinaryFrame(<< 1, 115, n >>)

\* The frames enqueued for or written to socket b on its connection.
Held(b) ==
    { out[b][i] : i \in 1..Len(out[b]) } \cup { chan[b][i] : i \in 1..Len(chan[b]) }

HeldBinary(b) == { f \in Held(b) : f.k = "binary" }

\* The broadcast of the agent's n-th frame has returned.
BroadcastDone(n) ==
    /\ n <= nframes
    /\ ~(bc_todo[AgentSock] # {} /\ bc_msg[AgentSock] = AgentFrame(n))

\* Browser b is attached: add_browser put it in the map and it has not left.
AttachedBrowser(b) ==
    /\ pc[b] \in {"b_reply", "b_notify", "b_loop"}
    /\ code[AgentSock] \in DOMAIN sessions
    /\ b \in sessions[code[AgentSock]].browsers

----------------------------------------------------------------------------
(* The tunnel supervisor.                                                  *)

\* The URLs of the TunnelUrl events sent so far, in order.
TunnelUrlsSent ==
    SelectSeq(tn_events, LAMBDA e : e.ui = "TunnelUrl")

\* C19: over the lifetime of one tunnel process the TunnelUrl event is sent
\* at most once per distinct URL: no two TunnelUrl events on ui_tx carry the
\* same URL.
C19_TunnelUrlOnce ==
    \A i, j \in 1..Len(TunnelUrlsSent) :
        TunnelUrlsSent[i].url = TunnelUrlsSent[j].url => i = j

----------------------------------------------------------------------------
(* The control-message schema of the two programs.                         *)

\* The tags of the Text frames the code of a program writes to the other:
\* the relay writes registered, error, browser_connected and
\* browser_disconnected and passes create_session on; the agent writes
\* register, session_list, session_connected and session_disconnected.
SentTags(side) ==
    IF side = "relay"
    THEN { "registered", "error", "browser_connected", "browser_disconnected",
           "create_session" }
    ELSE { "register", "session_list", "session_connected", "session_disconnected" }

\* C20: every control message one program serializes is a JSON object whose
\* `type` is the snake_case name of the variant (a field-less variant has no
\* other member), and for every tag that program sends to the other one, the
\* other program deserializes it to the same variant with the same fields.
C20_SchemasAgree ==
    /\ sc_pc \in {"sent", "received"} =>
          /\ sc_json.type = snake_case[sc_msg.variant]
          /\ DOMAIN sc_json.fields = ControlMessage(sc_from)[sc_msg.variant]
    /\ (sc_pc = "received" /\ sc_json.type \in SentTags(sc_from)) =>
          (sc_result.ok /\ sc_result.msg = sc_msg)

----------------------------------------------------------------------------
(* The relay client: reset of the failure counter, unknown text, Reconnect. *)

\* The step in which the client handles registered{code}.
RegistrationSucceeds == ~rc_registered /\ rc_registered'

\* C21: the failure counter is reset to 0 exactly when registration
\* succeeds: a step lowers reconnect_attempts only if it is the receipt of
\* registered, and after that receipt the counter is 0; a connection that
\* is made and ends before registered arrives leaves the counter alone.
C21_ResetOnRegistration ==
    [][ /\ reconnect_attempts' < reconnect_attempts => RegistrationSucceeds
        /\ RegistrationSucceeds => reconnect_attempts' = 0 ]_vars

----------------------------------------------------------------------------
(* The browser handler: order of a successful auth, close, failed auth.    *)

\* Browser b is in the fan-out set of a session.
InFanOut(b) == \E c \in DOMAIN sessions : b \in sessions[c].browsers

\* auth_success has been written to the socket of b.
AuthSuccessSent(b) == \E i \in 1..Len(out[b]) : out[b][i] = AuthSuccess

\* The step that enqueues browser_connected{b} to the agent.
EnqueuesConnected(b) ==
    /\ pc[b] = "b_notify" /\ pc'[b] = "b_loop"
    /\ chan' # chan

\* C22: on a successful auth the relay sends auth_success, then adds the
\* browser to the browser set, then enqueues browser_connected: a browser
\* is in no fan-out set before its auth_success has been sent, and
\* browser_connected is enqueued only for a browser that is in the set.
C22_AuthSuccessBeforeAdd ==
    [][ /\ \A b \in BrowserSocks : InFanOut(b)' => AuthSuccessSent(b)'
        /\ \A b \in BrowserSocks : EnqueuesConnected(b) => InFanOut(b) ]_vars

\* The frames the relay has written or queued for the agent, in order.
AgentStream == out[AgentSock] \o chan[AgentSock]

IsBrowserConnected(f, b) ==
    f.k = "text" /\ f.text = Ctl("browser_connected", BrowserId(b))
IsSessionList(f) == f.k = "text" /\ f.text.type = "session_list"

\* The browser_connected messages enqueued from that of b on: each of them
\* is answered by a session_list while b is in the fan-out set.
AnswersDue(b) ==
    Cardinality({ i \in 1..Len(AgentStream) :
        /\ AgentStream[i].k = "text"
        /\ AgentStream[i].text.type = "browser_connected"
        /\ \E j \in 1..i : IsBrowserConnected(AgentStream[j], b) })

\* The session_list frames written to b after its auth_success.
ListsReceived(b) ==
    Cardinality({ i \in 1..Len(out[b]) :
        /\ IsSessionList(out[b][i])
        /\ \E j \in 1..(i - 1) : out[b][j] = AuthSuccess })

\* C23: after browser b authenticates, the session_list the agent sends in
\* reply to browser_connected{b} is forwarded as a text frame to b, after
\* auth_success, provided the agent and b stay connected: in the end every
\* browser that is still attached has received a session_list for its own
\* browser_connected and for each one enqueued later.
C23_SessionListReachesBrowser ==
    <>[](\A b \in BrowserSocks :
            pc[b] = "b_loop" =>
               /\ AnswersDue(b) >= 1
               /\ ListsReceived(b) >= AnswersDue(b)
               /\ \A i \in 1..Len(out[b]) :
                     IsSessionList(out[b][i]) =>
                        \E j \in 1..(i - 1) : out[b][j] = AuthSuccess)

\* Two browsers are attached and each has its session lists.
C23_Witness ==
    /\ \A b \in BrowserSocks : pc[b] = "b_loop" /\ ListsReceived(b) >= AnswersDue(b)
    /\ \E b \in BrowserSocks : ListsReceived(b) = 2

\* The step in which the reader of browser b sees its socket closed.
BrowserSocketCloses(b) == pc[b] = "b_loop" /\ pc'[b] = "done"

\* C24: when a browser's socket closes, the only change to the broker's
\* state is that the browser's id leaves the browsers map of its session:
\* the same sessions exist with the same agent sinks, every other browser
\* stays where it is, and no other handler, channel or socket is touched.
C24_CloseRemovesOnlyBrowser ==
    [][ \A b \in BrowserSocks : BrowserSocketCloses(b) =>
          /\ DOMAIN sessions' = DOMAIN sessions
          /\ \A c \in DOMAIN sessions :
                /\ sessions'[c].mac_tx = sessions[c].mac_tx
                /\ sessions'[c].browsers = sessions[c].browsers \ {b}
          /\ \A s \in Socks \ {b} :
                /\ pc'[s] = pc[s]
                /\ chan'[s] = chan[s]
                /\ rx'[s] = rx[s]
                /\ out'[s] = out[s] ]_vars

\* A browser that was attached has closed; the other browser is still in
\* the session and the agent's handler is in its loop.
C24_Witness ==
    \E b \in BrowserSocks, c \in DOMAIN sessions :
        /\ pc[b] = "done" /\ AuthSuccessSent(b)
        /\ sessions[c].browsers = BrowserSocks \ {b}
        /\ pc[sessions[c].mac_tx] = "mac_loop"

AuthFailed == TextFrame(Ctl("auth_failed", << "Invalid session code" >>))

\* The handler of browser b acts on an auth whose uppercased code is not a
\* key of the sessions map.
FailedAuthStep(b) ==
    /\ pc[b] = "b_validate" /\ pc'[b] # "b_validate"
    /\ code[b] \notin DOMAIN sessions

\* C25: an auth whose uppercased session_code is not a key of the sessions
\* map is answered with exactly one auth_failed text frame and the handler
\* returns; no browser is added to any session, nothing is enqueued for any
\* agent and the broker's state is unchanged.
C25_FailedAuthChangesNothing ==
    [][ \A b \in BrowserSocks : FailedAuthStep(b) =>
          /\ pc'[b] = "done"
          /\ out'[b] = << AuthFailed >>
          /\ sessions' = sessions
          /\ chan' = chan
          /\ rx' = rx
          /\ bc_todo' = bc_todo
          /\ ~InSessions(b)'
          /\ \A s \in Socks \ {b} : pc'[s] = pc[s] /\ out'[s] = out[s] ]_vars

\* A failed auth has been answered while an agent's session is in the map.
C25_Witness ==
    \E b \in BrowserSocks :
        /\ IsAuth(first[b]) /\ pc[b] = "done"
        /\ out[b] = << AuthFailed >>
        /\ DOMAIN sessions # {}
        /\ code[b] \notin DOMAIN sessions

\* The tags handle_text_message acts on.
HandledByAgent ==
    {"registered", "browser_connected", "browser_disconnected", "error",
     "create_session"}

\* A text frame whose tag is unknown or unhandled, or that does not parse.
Ignorable(f) ==
    f.k = "text" /\ (~from_str_ok(f.text) \/ f.text.type \notin HandledByAgent)

\* The relay client takes the next frame off its socket.
ClientReads == rc_pc = "connected" /\ ag_rd' = ag_rd + 1

\* C26: after the first message, a text frame whose tag is unknown or
\* unhandled, or that fails to parse as a control message, is ignored by
\* the relay client: it emits no event and stays connected instead of
\* ending the connection and entering reconnect.
C26_UnknownTextIgnored ==
    [][ (ClientReads /\ Ignorable(out[AgentSock][ag_rd + 1])) =>
           /\ rc_pc' = "connected"
           /\ relay_events' = relay_events ]_vars

----------------------------------------------------------------------------
(* The tmux session manager: cleanup after EOF, the map's mutex, the       *)
(* session watcher.                                                        *)

\* C27: after the reader of an attached session has seen EOF or a read
\* error, the entry of that session id is eventually removed from the
\* sessions map.
C27_EntryRemovedAfterEof ==
    \A u \in SessionUuids :
        (tm_reader[u] = "exited") ~> (u \notin DOMAIN tm_sessions)

\* A blocking operation on a PTY handle is in progress: write_all to the
\* writer or resize of the master.
PtyIoInProgress == tm_pc \in {"writing", "resizing"}

\* C28: the mutex around the sessions map is never held while a blocking
\* operation on a PTY handle is in progress, so that a stalled write leaves
\* the map free for the watcher, the other commands and a reader's cleanup.
C28_MapFreeDuringPtyIo == PtyIoInProgress => tm_lock = "free"

\* The kinds of the events the relay client has emitted, in order.
EventKinds == [i \in 1..Len(relay_events) |-> relay_events[i].e.kind]

\* The position of the last event of a kind, 0 if there is none.
LastOf(kind) ==
    LET is == { i \in 1..Len(EventKinds) : EventKinds[i] = kind }
    IN  IF is = {} THEN 0 ELSE CHOOSE i \in is : \A j \in is : j <= i

\* The connection that is up, or was up last, has been registered.
ClientIsRegistered ==
    LastOf("Connected") > 0 /\ LastOf("SessionCode") > LastOf("Connected")

\* Reconnect has been processed on a registered connection: the loop has
\* been left and Disconnected is about to be emitted.
ReconnectProcessed ==
    rc_pc = "sleep" /\ ClientIsRegistered /\ LastOf("Disconnected") < LastOf("Connected")

\* The client has emitted Disconnected, then Connected, then the
\* SessionCode of a session that the relay holds for this connection, and
\* the close frame has reached the relay.
ReRegistered ==
    /\ rc_pc = "connected"
    /\ 0 < LastOf("Disconnected")
    /\ LastOf("Disconnected") < LastOf("Connected")
    /\ LastOf("Connected") < LastOf("SessionCode")
    /\ LET c == relay_events[LastOf("SessionCode")].e.session_id
       IN  c \in DOMAIN sessions /\ sessions[c].mac_tx = AgentSock
    /\ rc_slept[Len(rc_slept)].delay = delay_secs(0)

----------------------------------------------------------------------------
(* Claim C30: the session watcher attaches every new name.                 *)

\* The poll lists a name that its previous poll did not list.
PollFinds(name) == name \notin known_sessions /\ name \in known_sessions'

\* An attachment of the name whose reader is running.
LiveAttachment(name) ==
    \E u \in DOMAIN tm_sessions : tm_sessions[u] = name /\ tm_reader[u] = "running"

\* The step stores a new attachment of the name or reports a failed attach.
AttachStarted(name) ==
    \/ \E u \in (DOMAIN tm_sessions') \ (DOMAIN tm_sessions) : tm_sessions'[u] = name
    \/ \E i \in (Len(tm_events) + 1)..Len(tm_events') : tm_events'[i].ev = "Error"

\* C30: whenever a poll of the watcher finds a name that was absent from
\* the previous poll and has no live attachment, it starts an attach for
\* it in that poll, also when the name had existed, vanished and reappeared.
C30_NewNameIsAttached ==
    [][ \A name \in SessionNames :
          (PollFinds(name) /\ ~LiveAttachment(name)) => AttachStarted(name) ]_vars

----------------------------------------------------------------------------
(* Claim C31: one event per well-formed binary frame.                      *)

\* A frame that is not shorter than 1 + L, L being its first byte.
WellFormedFrame(data) == Len(data) >= 1 /\ Len(data) >= 1 + data[1]

\* The session id and the payload a well-formed frame carries.
FrameSessionId(data) == from_utf8_lossy(SubSeq(data, 2, 1 + data[1]))
FramePayload(data) == SubSeq(data, 2 + data[1], Len(data))

\* The payload as a JSON value, if it begins with '{' and is one.
PayloadJson(data) ==
    LET payload == FramePayload(data)
    IN  IF payload # << >> /\ payload[1] = 123
        THEN serde_json_from_str(payload) ELSE NoJson

\* The kind of event the frame stands for.
FrameKind(data) ==
    LET json == PayloadJson(data)
    IN  IF json.ok /\ json.type = "resize" /\ json.cols >= 0 /\ json.rows >= 0
        THEN "Resize"
        ELSE IF json.ok /\ json.type = "close_session" THEN "CloseSession"
        ELSE "TerminalData"

\* C31: for every well-formed inbound binary frame handle_binary_message
\* emits exactly one event, for the frame's session id: Resize for a resize
\* payload with numeric cols and rows, CloseSession for a close_session
\* payload, TerminalData with the payload bytes unchanged otherwise.
C31_OneEventPerFrame ==
    (cd_pc = "received" /\ WellFormedFrame(cd_frame)) =>
        /\ Len(cd_events) = 1
        /\ cd_events[1].session_id = FrameSessionId(cd_frame)
        /\ cd_events[1].kind = FrameKind(cd_frame)
        /\ cd_events[1].kind = "TerminalData" => cd_events[1].data = FramePayload(cd_frame)

----------------------------------------------------------------------------
(* Claim C32: an agent's disconnect touches its own session only.          *)

\* A step of the handler of agent a that follows the loss of its socket:
\* the reader leaves the loop, the disconnect error is broadcast, the
\* session is removed; or the write of registered{code} fails.
AgentDisconnectStep(a) ==
    \/ pc[a] = "mac_loop" /\ pc'[a] = "mac_bye"
    \/ pc[a] = "mac_bye" /\ pc'[a] = "done"
    \/ pc[a] = "mac_bye" /\ bc_todo'[a] # bc_todo[a] /\ pc' = pc /\ sessions' = sessions
    \/ pc[a] = "reg_reply" /\ pc'[a] = "done"

\* The codes whose entry names another agent's sink.
SessionsOfOthers(a) == { c \in DOMAIN sessions : sessions[c].mac_tx # a }

\* C32: the disconnect or failure of one agent socket changes only that
\* agent's session: the entry, agent sink and browsers map of every other
\* session stay as they are, nothing is enqueued for the browsers of
\* another session, and every other handler keeps its position, channel
\* and socket.
C32_AgentFailureIsLocal ==
    [][ \A a \in AgentSocks : AgentDisconnectStep(a) =>
          /\ \A c \in SessionsOfOthers(a) :
                /\ c \in DOMAIN sessions'
                /\ sessions'[c] = sessions[c]
                /\ \A b \in sessions[c].browsers : chan'[b] = chan[b]
          /\ \A s \in Socks \ {a} :
                /\ pc'[s] = pc[s]
                /\ rx'[s] = rx[s]
                /\ out'[s] = out[s]
                /\ s \in AgentSocks => chan'[s] = chan[s] ]_vars

----------------------------------------------------------------------------
(* Claim C33: close_session reaches the agent for the session id sent.     *)

\* The agent has handled a frame the relay built for close_session.
CloseFrameHandled ==
    cd_pc = "received" /\ cd_raw /\ cd_payload = CLOSE_SESSION_PAYLOAD

\* C33: for every session_id a browser sends in close_session, of any byte
\* length, the agent decodes the relay's binary frame into CloseSession for
\* exactly that session_id and emits no event for another session id.
C33_CloseSessionKeepsId ==
    CloseFrameHandled =>
        /\ cd_events = << CloseSession(cd_id) >>
        /\ \A i \in 1..Len(cd_events) : cd_events[i].session_id = cd_id

----------------------------------------------------------------------------
(* Claim C34: the queues between the tasks are bounded.                    *)

\* The events of the PTY manager the pty_event task has not received yet.
PtyEventBacklog == Len(tm_events) - pe_rd

\* C34: every queue between PTY reader, agent router, relay client, relay
\* broker and browser writer has a fixed capacity (ChanCap in the model)
\* that its length never exceeds, also while the relay client is not
\* connected and the PTYs keep producing output.
C34_QueuesBounded ==
    /\ \A s \in Socks : Len(chan[s]) <= ChanCap
    /\ Len(relay_cmds) <= ChanCap
    /\ Len(pty_cmds) <= ChanCap
    /\ PtyEventBacklog <= ChanCap

----------------------------------------------------------------------------
(* Claim C35: the agent's browser_count follows the browsers map.          *)

\* No browser is between add_browser and its notification, and nothing is
\* on its way from the relay to the UI thread.
CountSettled ==
    /\ \A b \in BrowserSocks : pc[b] \in {"closed", "b_loop", "done"}
    /\ pc[AgentSock] = "mac_loop"
    /\ chan[AgentSock] = << >>
    /\ ag_rd = Len(out[AgentSock])
    /\ relay_events = << >>
    /\ ui_events = << >>

\* The browsers in the browsers map of the agent's session.
BrowsersInSession == BrowsersOf(sessions, code[AgentSock])

\* C35: when an attached browser's socket closes the relay sends
\* browser_disconnected to the agent, so that after any sequence of browser
\* connects and disconnects browser_count equals the number of browsers in
\* the session's browsers map.
C35_BrowserCountFollowsMap ==
    CountSettled => browser_count = Cardinality(BrowsersInSession)

----------------------------------------------------------------------------
(* Claim C36: frames never cross sessions.                                 *)

\* The step is an iteration of agent a's broadcast that enqueues for b.
BroadcastReaches(a, b) ==
    /\ b \in bc_todo[a] /\ b \notin bc_todo'[a]
    /\ Len(chan'[b]) > Len(chan[b])

\* The step is one of browser b's handler, after add_browser, that
\* enqueues for agent a: browser_connected or a forwarded frame.
BrowserReaches(b, a) ==
    /\ Len(chan'[a]) > Len(chan[a])
    /\ \/ pc[b] = "b_notify" /\ pc'[b] = "b_loop"
       \/ pc[b] = "b_loop" /\ pc'[b] = "b_loop" /\ nframes' # nframes

\* C36: a frame an agent sends is enqueued only to browsers that joined
\* that agent's session, and what a browser's handler sends is enqueued
\* only to the agent whose session the browser joined, also after other
\* sessions were created and removed and codes were used again.
C36_NoCrossSession ==
    [][ \A a \in AgentSocks, b \in BrowserSocks :
          /\ BroadcastReaches(a, b) => joined[b] = a
          /\ BrowserReaches(b, a) => joined[b] = a ]_vars

----------------------------------------------------------------------------
(* Claim C37: one live attachment per tmux session name.                   *)

\* The attachments of the name whose reader is running.
LiveAttachments(name) ==
    { u \in DOMAIN tm_sessions : tm_sessions[u] = name /\ tm_reader[u] = "running" }

\* C37: at any instant at most one live PTY attachment exists per session
\* name, under every interleaving of the watcher's poll with the NewSession,
\* Attach and AttachAll handling of the command processor.
C37_OneAttachmentPerName ==
    \A name \in SessionNames : Cardinality(LiveAttachments(name)) <= 1

----------------------------------------------------------------------------
(* Claim C38: Resize carries the cols and rows of the message.             *)

\* A frame with a resize message whose cols and rows are integers >= 0 has
\* been handled.
ResizeFrameHandled ==
    /\ cd_pc = "received"
    /\ WellFormedFrame(cd_frame)
    /\ FrameKind(cd_frame) = "Resize"

\* C38: for every in-band resize message with non-negative integer cols and
\* rows, the Resize event handle_binary_message emits carries exactly those
\* cols and rows; no value is turned into a different size.
C38_ResizeKeepsSize ==
    ResizeFrameHandled =>
        \A i \in 1..Len(cd_events) :
            cd_events[i].kind = "Resize" =>
                /\ cd_events[i].cols = PayloadJson(cd_frame).cols
                /\ cd_events[i].rows = PayloadJson(cd_frame).rows

----------------------------------------------------------------------------
(* Claim C39: shell_count follows the attached sessions.                   *)

\* Every event of the PTY manager has been forwarded and the UI thread has
\* handled every UiEvent.
ShellSettled == pe_rd = Len(tm_events) /\ ui_events = << >>

\* The sessions for which Attached was emitted, and those of them that ended
\* (killed by id, detached, or their PTY at EOF), each of which is announced
\* by Detached.
AttachedShells ==
    { tm_events[i].session_id :
        i \in { j \in 1..Len(tm_events) : tm_events[j].ev = "Attached" } }
EndedShells ==
    { tm_events[i].session_id :
        i \in { j \in 1..Len(tm_events) : tm_events[j].ev = "Detached" } }

\* C39: once the UI has processed all pending events, shell_count is the
\* number of sessions that were attached and have not ended, whatever the
\* sequence of attaches, kills by id, detaches and PTY EOFs.
C39_ShellCountFollowsSessions ==
    ShellSettled => shell_count = Cardinality(AttachedShells \ EndedShells)

----------------------------------------------------------------------------
(* Claim C40: session_list and session_connected in arrival order.         *)

\* The i-th command announces a session, the j-th is a session list.
IsConnectedCmd(i) == relay_cmds[i].cmd = "SendSessionConnected"
IsListCmd(j) == relay_cmds[j].cmd = "SendSessionList"

\* The list of a SendSessionList names the session of a SendSessionConnected.
Lists(j, i) ==
    \E k \in 1..Len(relay_cmds[j].session_id) :
        << relay_cmds[j].session_id[k] >> = relay_cmds[i].session_id

\* A browser that applies the commands in order: session_list replaces its
\* set, session_connected adds to it, session_disconnected removes from it.
RECURSIVE browser_view(_, _)
browser_view(view, cmds) ==
    IF cmds = << >> THEN view
    ELSE LET c == Head(cmds)
             next == IF c.cmd = "SendSessionList"
                     THEN { << c.session_id[k] >> : k \in 1..Len(c.session_id) }
                     ELSE IF c.cmd = "SendSessionConnected" THEN view \cup { c.session_id }
                     ELSE IF c.cmd = "SendSessionDisconnected" THEN view \ { c.session_id }
                     ELSE view
         IN  browser_view(next, Tail(cmds))

\* The agent's attached sessions, as its shared list has them.
AgentSessions == { << session_list[k] >> : k \in 1..Len(session_list) }

\* Both tasks have sent what they had to send, and a list was sent.
OrderSettled ==
    /\ pe_hold = << >> /\ fr_hold = << >>
    /\ pe_rd = Len(tm_events)
    /\ relay_events = << >> /\ ag_rd = Len(out[AgentSock])
    /\ \E j \in 1..Len(relay_cmds) : IsListCmd(j)

\* C40: under every interleaving of the pty_event task with
\* forward_relay_events no session_list is sent after a session_connected
\* whose session it omits, so that a browser applying the messages in
\* arrival order ends with exactly the agent's set of attached sessions.
C40_ListNeverOmitsAnnounced ==
    /\ \A i \in 1..Len(relay_cmds), j \in 1..Len(relay_cmds) :
          (i < j /\ IsConnectedCmd(i) /\ IsListCmd(j)) => Lists(j, i)
    /\ OrderSettled => browser_view({}, relay_cmds) = AgentSessions

============================================================================
